---- MODULE Spec2Model ----
(***************************************************************************)
(* Orchestration engine of the research-agent server: the per-agent cycle  *)
(* state machine (AgentOrchestrator), the single-shot SubAgentRunner and   *)
(* the trace/span bookkeeping with its process-wide active context.        *)
(*                                                                         *)
(* The program is single-threaded asynchronous JavaScript.  One action of  *)
(* this module is one run-to-completion segment of a method: the code from *)
(* one `await` to the next.  An awaited database call (spanDb.create,      *)
(* spanDb.update, traceDb.create, traceDb.update) takes effect in the      *)
(* action that resumes after it.                                           *)
(***************************************************************************)
EXTENDS Integers, Sequences, FiniteSets, TLC

\* ------------------------------------------------------------------ bounds
MaxCycles == 2      \* cycles one agent may begin
MaxMsgs == 2        \* non-result messages the engine sends in one agent cycle
MaxTools == 1       \* tool_use blocks per query
MaxStarts == 1      \* successful start() calls per agent
MaxApiSpans == 2    \* spans the direct users of the tracing module create
MaxApiTraces == 2   \* traces the direct users of the tracing module create
MaxEnds == 1        \* endSpan calls per span by direct users of the tracing module
MaxSubStops == 1    \* stop() calls on one sub-agent
MaxRestarts == 2    \* start() calls that pass the status check, where restarts are followed
MaxRows == 2        \* long-term memories one agent saves
MaxProcMsgs == 2    \* messages one process's stream delivers

\* SubAgentRunner.run: const MAX_MESSAGES = 20
MAX_MESSAGES == 20

None == 0           \* undefined / null / '' (ids are positive)

AgentIds == {"a1", "a2"}
SubIds == {"s1"}

VARIABLES
    agent,      \* AgentOrchestrator fields and its in-flight start/pause/stop calls
    loop,       \* per agent, the cycleLoop() invocations (one per successful start)
    sub,        \* SubAgentRunner fields and its run()/stop() positions
    traces,     \* the traces table, id = index
    spans,      \* the spans table, id = index (creation order)
    ctx,        \* tracing.ts currentContext: traceId = None is the null context
    ret,        \* the last API call made from outside and its outcome
    processes   \* ProcessManager.processes and each executeQuery()/cancelProcess() position

vars == <<agent, loop, sub, traces, spans, ctx, ret, processes>>

\* ------------------------------------------------------------ tracing.ts
NullCtx == [traceId |-> None, spanId |-> None]

\* createTrace: traceDb.create, then setTraceContext({traceId})
createTrace(tr, agentId) ==
    [traces |-> Append(tr, [agent |-> agentId, status |-> "running"]),
     ctx |-> [traceId |-> Len(tr) + 1, spanId |-> None],
     id |-> Len(tr) + 1]

\* endTrace: traceDb.update (no row: no effect), context cleared if it names the trace
endTrace(tr, cx, traceId, st) ==
    [traces |-> IF traceId \in DOMAIN tr THEN [tr EXCEPT ![traceId].status = st] ELSE tr,
     ctx |-> IF cx.traceId # None /\ cx.traceId = traceId THEN NullCtx ELSE cx]

\* startSpan: trace and parent from the options, else from the active context;
\* no trace: ''; the insert fails ('' returned) on a foreign-key violation;
\* the context advances only if it names the span's trace.
startSpan(tr, sp, cx, type, optTrace, optParent) ==
    LET traceId == IF optTrace # None THEN optTrace ELSE cx.traceId
        parent == IF optParent # None THEN optParent ELSE cx.spanId
        created == /\ traceId # None
                   /\ traceId \in DOMAIN tr
                   /\ (parent = None \/ parent \in DOMAIN sp)
        id == Len(sp) + 1
    IN  IF ~created
        THEN [spans |-> sp, ctx |-> cx, id |-> None]
        ELSE [spans |-> Append(sp, [traceId |-> traceId, parent |-> parent,
                                    type |-> type, status |-> "running", ends |-> 0,
                                    error |-> "none"]),
              ctx |-> IF cx.traceId # None /\ cx.traceId = traceId
                      THEN [traceId |-> cx.traceId, spanId |-> id]
                      ELSE cx,
              id |-> id]

\* endSpan with the lookup guard removed: the dereference of the missing row raises
endSpanNoGuard(sp, cx, spanId, st) ==
    IF spanId = None
    THEN [spans |-> sp, ctx |-> cx, raised |-> FALSE]
    ELSE IF spanId \notin DOMAIN sp
    THEN [spans |-> sp, ctx |-> cx, raised |-> TRUE]
    ELSE [spans |-> [sp EXCEPT ![spanId].status = st, ![spanId].ends = @ + 1],
          ctx |-> IF cx.traceId # None /\ cx.spanId = spanId
                  THEN [traceId |-> cx.traceId, spanId |-> sp[spanId].parent]
                  ELSE cx,
          raised |-> FALSE]

\* endSpan that clears the context's current span instead of moving it back
\* to the parent
endSpanClears(sp, cx, spanId, st, err) ==
    IF spanId = None \/ spanId \notin DOMAIN sp
    THEN [spans |-> sp, ctx |-> cx, raised |-> FALSE]
    ELSE [spans |-> [sp EXCEPT ![spanId].status = st, ![spanId].ends = @ + 1,
                               ![spanId].error = err],
          ctx |-> IF cx.traceId # None /\ cx.spanId = spanId
                  THEN [traceId |-> cx.traceId, spanId |-> None]
                  ELSE cx,
          raised |-> FALSE]

\* endSpan(spanId, status, {error}): '' or an unknown id returns at once; else
\* the row is updated (status, end time, error: options.error or null) and, if
\* the span is the context's current one, the context moves back to the
\* span's parent.
endSpanOpt(sp, cx, spanId, st, err) ==
    IF spanId = None \/ spanId \notin DOMAIN sp
    THEN [spans |-> sp, ctx |-> cx, raised |-> FALSE]
    ELSE [spans |-> [sp EXCEPT ![spanId].status = st, ![spanId].ends = @ + 1,
                               ![spanId].error = err],
          ctx |-> IF cx.traceId # None /\ cx.spanId = spanId
                  THEN [traceId |-> cx.traceId, spanId |-> sp[spanId].parent]
                  ELSE cx,
          raised |-> FALSE]

\* endSpan(spanId, status) with no error in the options
endSpan(sp, cx, spanId, st) == endSpanOpt(sp, cx, spanId, st, "none")

\* ------------------------------------------------- paths and the memory file
\* a path is the sequence of its segments; path.join() concatenates and
\* resolves each '..' against the segment before it
RECURSIVE normalize(_, _)
normalize(acc, p) ==
    IF p = <<>> THEN acc
    ELSE IF Head(p) = ".." /\ acc # <<>>
         THEN normalize(SubSeq(acc, 1, Len(acc) - 1), Tail(p))
         ELSE normalize(Append(acc, Head(p)), Tail(p))

pathJoin(p, q) == normalize(<<>>, p \o q)

\* join(process.cwd(), 'memory'), the manager's default memoryBasePath
memoryBasePath == <<"cwd", "memory">>

\* spawn(): memoryPath and resultsPath of the agent with this id; an absent or
\* empty options.resultsPath is <<>>
memoryPathOf(id) == pathJoin(memoryBasePath, <<id \o ".md">>)
resultsPathOf(id, options) ==
    IF options.resultsPath # <<>> THEN options.resultsPath
    ELSE pathJoin(memoryBasePath, <<"..", "results", id \o "-results.md">>)

\* spawnSubAgent: the directory of the reports of the sub-agents of agent id
reportsBasePath(id, resultsPath) ==
    IF resultsPath # <<>> THEN pathJoin(resultsPath, <<"..", "sub-agents", id>>)
    ELSE <<"cwd", "results", "sub-agents", id>>

\* a text is the sequence of its pieces; LoneSurrogate is a UTF-16 code unit
\* that is half of a pair, which the UTF-8 encoder of writeFile replaces
LoneSurrogate == "U+D800"
Replacement == "U+FFFD"
encodeUtf8(text) ==
    [i \in DOMAIN text |-> IF text[i] = LoneSurrogate THEN Replacement ELSE text[i]]

\* createdAt.toISOString() of the agents' creation time
CreatedAt == "2025-01-01T00:00:00.000Z"

\* no file at a path, and a file with its content
NoFile == [exists |-> FALSE, data |-> <<>>]
File(data) == [exists |-> TRUE, data |-> data]

\* readMemory: the default template for a path with no file
defaultMemory(agentId, instructions, createdAt) ==
    <<"# Research Agent Memory - ", agentId, "\nCreated: ", createdAt, "\nInstructions: ">>
    \o instructions
    \o <<"\n\n## Research Query ... ## Cycle History\n- [", createdAt,
         "] Cycle 0: Initial creation ... ## Notes ...\n">>

\* readMemory(memoryPath, agentId, instructions, createdAt) on the file at
\* memoryPath: its content, the template when there is none, '' when
\* readFile throws
readMemory(file, agentId, instructions, createdAt, readOk) ==
    IF file.exists
    THEN IF readOk THEN file.data ELSE <<>>
    ELSE defaultMemory(agentId, instructions, createdAt)

\* writeMemory appending to what the file holds
writeMemoryAppends(file, content, writeOk) ==
    IF writeOk THEN File(file.data \o encodeUtf8(content)) ELSE file

\* writeMemory(memoryPath, content, agentId): the file at memoryPath after it;
\* an error of writeFile is logged and nothing is written
writeMemory(file, content, writeOk) ==
    IF writeOk THEN File(encodeUtf8(content)) ELSE file

\* ------------------------------------------------------------ initial state
\* a call from outside: who was called, the method, its outcome so far, for
\* pause() whether a query was in flight and whether its interruption was
\* requested, and for withSpan() the span id startSpan gave it
NoRet ==
    [who |-> "none", op |-> "none", res |-> "none", hadQuery |-> FALSE, intr |-> FALSE,
     span |-> None]
Ret(a, op, res) ==
    [who |-> a, op |-> op, res |-> res, hadQuery |-> FALSE, intr |-> FALSE, span |-> None]

\* the instructions an agent is constructed with
AgentInstructions == <<"research">>

\* new AgentOrchestrator(...); memories are the rows of long_term_memories with
\* this agent's id (each row by its content), results the file at resultsPath,
\* memoryFile the file at memoryPath, memoryRead what the last readMemory call
\* from outside returned; the paths are <<>> until spawn() has derived them;
\* sleepCycle is the cycle in which the deadline in sleepUntil was recorded, 0
\* with no deadline
NewAgent ==
    [status |-> "stopped", cycleCount |-> 0, isPaused |-> FALSE, shouldStop |-> FALSE,
     sleepUntil |-> FALSE, sleepCycle |-> 0, sleepTimeout |-> "none", pauseResolve |-> None,
     currentQuery |-> None, cycleLoopPromise |-> None, traceId |-> None,
     subAgents |-> {},
     startsPending |-> 0, pausePc |-> "idle", stopPc |-> "idle", stopTrace |-> None,
     stopSubs |-> {}, pauseHadQuery |-> FALSE, pauseIntr |-> FALSE, starts |-> 0,
     registered |-> FALSE, removing |-> FALSE,
     memories |-> <<>>, results |-> "none",
     memoryPath |-> <<>>, resultsPath |-> <<>>, memoryFile |-> NoFile, memoryRead |-> <<>>]

\* new SubAgentRunner(...), not yet registered (spawnPc, spawnSpan and
\* spawnParent are the locals of the spawnSubAgent call that creates it;
\* toolPending is a saveReport call the engine has announced and not yet made;
\* file is what the file system holds at reportPath, "none" for no file)
NewSub ==
    [status |-> "pending", error |-> "none", currentQuery |-> FALSE,
     traceId |-> None, parentSpanId |-> None,
     pc |-> "new", stopPc |-> "idle", stops |-> 0,
     q |-> "none", qIntr |-> FALSE, resultSent |-> FALSE,
     messageCount |-> 0, processed |-> 0, reportSaved |-> FALSE, tools |-> 0,
     subSpan |-> None, llmSpan |-> None, toolSpans |-> <<>>, toEnd |-> <<>>,
     spawnPc |-> "idle", spawnSpan |-> None, spawnParent |-> None,
     completedAt |-> FALSE, toolPending |-> FALSE, file |-> "none"]

\* ids startProcess may hand out
ProcIds == {"p1", "p2"}

\* a ProcessInfo the map does not hold yet (status "none"), with the position
\* of its executeQuery() (pc), of a cancelProcess() on it (cancelPc), whether
\* process.query is set, the messages its stream has delivered and whether
\* the result message was among them
NewProcess ==
    [status |-> "none", query |-> FALSE, pc |-> "new", qIntr |-> FALSE, msgs |-> 0,
     resultSent |-> FALSE, cancelPc |-> "idle", completedAt |-> FALSE]

Init ==
    /\ agent = [a \in AgentIds |-> NewAgent]
    /\ loop = [a \in AgentIds |-> <<>>]
    /\ sub = [s \in SubIds |-> NewSub]
    /\ traces = <<>>
    /\ spans = <<>>
    /\ ctx = NullCtx
    /\ ret = NoRet
    /\ processes = [p \in ProcIds |-> NewProcess]

\* ------------------------------------------------- AgentOrchestrator (agent.ts)
\* locals of one cycleLoop() invocation and of the runCycle() it is in
NewLoop ==
    [pc |-> "top", q |-> "none", qIntr |-> FALSE, resultSent |-> FALSE, msgs |-> 0,
     sleepRequested |-> FALSE, cycleSpan |-> None, llmSpan |-> None,
     toolSpans |-> <<>>, toEnd |-> <<>>]

MsgTypes == {"other", "tool_use", "result_success", "result_error"}

\* Query.interrupt() on this.currentQuery: a request, recorded on the open query
interrupt(ls, cq) ==
    IF cq \in DOMAIN ls /\ ls[cq].q = "open" THEN [ls EXCEPT ![cq].qIntr = TRUE] ELSE ls

\* this.pauseResolve(): the loop waiting on the pause promise is made runnable
resolvePause(ls, pr) ==
    IF pr \in DOMAIN ls /\ ls[pr].pc \in {"loopWait", "cycleWait"}
    THEN [ls EXCEPT ![pr].pc = IF @ = "loopWait" THEN "loopResumed" ELSE "cycleResumed"]
    ELSE ls

\* a cycle of the agent has an engine query whose stream is not finished
InFlight(ls) == \E i \in DOMAIN ls : ls[i].q = "open"
InFlightInterrupted(ls) == \A i \in DOMAIN ls : ls[i].q = "open" => ls[i].qIntr

\* start() with the status check dropped
StartCallNoCheck(a) ==
    /\ agent[a].starts <= MaxStarts
    /\ agent' = [agent EXCEPT ![a].shouldStop = FALSE, ![a].isPaused = FALSE,
                              ![a].status = "running", ![a].startsPending = @ + 1,
                              ![a].starts = @ + 1]
    /\ ret' = Ret(a, "start", "pending")
    /\ UNCHANGED <<loop, sub, traces, spans, ctx, processes>>

\* start(), up to `await createTrace(...)`; max bounds the calls that pass the
\* status check
StartBody(a, max) ==
    IF agent[a].status # "stopped"
    THEN /\ ret' = Ret(a, "start", "AlreadyRunning")
         /\ UNCHANGED <<agent, loop, sub, traces, spans, ctx, processes>>
    ELSE /\ agent[a].starts < max
         /\ agent' = [agent EXCEPT ![a].shouldStop = FALSE, ![a].isPaused = FALSE,
                                   ![a].status = "running", ![a].startsPending = @ + 1,
                                   ![a].starts = @ + 1]
         /\ ret' = Ret(a, "start", "pending")
         /\ UNCHANGED <<loop, sub, traces, spans, ctx, processes>>

StartCall(a) == StartBody(a, MaxStarts)

\* start(): a memory file that does not exist is written with what readMemory
\* returns for it (the directory has just been ensured by mkdir)
initMemory(a, file) ==
    IF file.exists THEN file
    ELSE writeMemory(file, readMemory(file, a, AgentInstructions, CreatedAt, TRUE), TRUE)

\* start(), after createTrace: the trace id is kept, the memory file is
\* initialised and cycleLoop() is launched; traceDb.create returning null makes
\* createTrace throw out of start()
StartCreated(a) ==
    /\ agent[a].startsPending > 0
    /\ \E ok \in BOOLEAN :
         IF ok
         THEN LET r == createTrace(traces, a)
              IN  /\ traces' = r.traces
                  /\ ctx' = r.ctx
                  /\ agent' = [agent EXCEPT ![a].traceId = r.id,
                                            ![a].cycleLoopPromise = Len(loop[a]) + 1,
                                            ![a].startsPending = @ - 1,
                                            ![a].memoryFile = initMemory(a, @)]
                  /\ loop' = [loop EXCEPT ![a] = Append(@, NewLoop)]
                  /\ ret' = Ret(a, "start", "ok")
         ELSE /\ agent' = [agent EXCEPT ![a].startsPending = @ - 1]
              /\ ret' = Ret(a, "start", "TraceFailed")
              /\ UNCHANGED <<loop, traces, ctx, processes>>
    /\ UNCHANGED <<sub, spans, processes>>

\* cycleLoop with a runCycle that counts the cycle before it tests shouldStop
LoopTopCountsFirst(a, i) ==
    LET A == agent[a] IN
    /\ loop[a][i].pc = "top"
    /\ IF A.shouldStop
       THEN /\ agent' = [agent EXCEPT ![a].status = "stopped",
                                      ![a].cycleCount = IF @ < MaxCycles THEN @ + 1 ELSE @]
            /\ loop' = [loop EXCEPT ![a][i].pc = "done"]
       ELSE IF A.isPaused
       THEN /\ agent' = [agent EXCEPT ![a].pauseResolve = i]
            /\ loop' = [loop EXCEPT ![a][i].pc = "loopWait"]
       ELSE /\ A.cycleCount < MaxCycles
            /\ agent' = [agent EXCEPT ![a].status = "running", ![a].cycleCount = @ + 1]
            /\ loop' = [loop EXCEPT ![a][i].pc = "startCycleSpan"]
    /\ UNCHANGED <<sub, traces, spans, ctx, ret, processes>>

\* cycleLoop: the while test, the pause wait, or the entry of runCycle up to
\* withSpan('cycle_N') -> startSpan -> await spanDb.create
LoopTop(a, i) ==
    LET A == agent[a] IN
    /\ loop[a][i].pc = "top"
    /\ IF A.shouldStop
       THEN /\ agent' = [agent EXCEPT ![a].status = "stopped"]
            /\ loop' = [loop EXCEPT ![a][i].pc = "done"]
       ELSE IF A.isPaused
       THEN /\ agent' = [agent EXCEPT ![a].pauseResolve = i]
            /\ loop' = [loop EXCEPT ![a][i].pc = "loopWait"]
       ELSE /\ A.cycleCount < MaxCycles
            /\ agent' = [agent EXCEPT ![a].status = "running", ![a].cycleCount = @ + 1]
            /\ loop' = [loop EXCEPT ![a][i].pc = "startCycleSpan"]
    /\ UNCHANGED <<sub, traces, spans, ctx, ret, processes>>

\* runCycle: the cycle span exists; buildSystemPrompt is awaited
LoopCycleSpan(a, i) ==
    /\ loop[a][i].pc = "startCycleSpan"
    /\ LET r == startSpan(traces, spans, ctx, "cycle", agent[a].traceId, None)
       IN  /\ spans' = r.spans
           /\ ctx' = r.ctx
           /\ loop' = [loop EXCEPT ![a][i].cycleSpan = r.id, ![a][i].pc = "startLlmSpan"]
    /\ UNCHANGED <<agent, sub, traces, ret, processes>>

\* runCycle: the llm span exists; the query is created and the stream awaited
LoopLlmSpan(a, i) ==
    /\ loop[a][i].pc = "startLlmSpan"
    /\ LET r == startSpan(traces, spans, ctx, "llm", agent[a].traceId, loop[a][i].cycleSpan)
       IN  /\ spans' = r.spans
           /\ ctx' = r.ctx
           /\ loop' = [loop EXCEPT ![a][i] =
                         [@ EXCEPT !.llmSpan = r.id, !.pc = "stream", !.q = "open",
                                   !.qIntr = FALSE, !.resultSent = FALSE, !.msgs = 0,
                                   !.sleepRequested = FALSE, !.toolSpans = <<>>,
                                   !.toEnd = <<>>]]
    /\ agent' = [agent EXCEPT ![a].currentQuery = i]
    /\ UNCHANGED <<sub, traces, ret, processes>>

\* for await: one message arrives; the stop check, the pause check, then the
\* message's type, each up to its first await
StreamMsg(a, i, m) ==
    LET A == agent[a]
        ls == loop[a]
        l == [ls[i] EXCEPT !.msgs = IF m \in {"other", "tool_use"} THEN @ + 1 ELSE @,
                           !.resultSent = m \in {"result_success", "result_error"}]
    IN
    /\ ls[i].pc = "stream" /\ ls[i].q = "open" /\ ~ls[i].resultSent
    /\ m \in {"other", "tool_use"} => ls[i].msgs < MaxMsgs
    /\ m = "tool_use" => Len(ls[i].toolSpans) < MaxTools
    /\ loop' = [loop EXCEPT ![a] =
         IF (A.shouldStop \/ A.isPaused) /\ A.currentQuery = None
         THEN \* this.currentQuery.interrupt() on undefined throws into the catch
              [ls EXCEPT ![i] = [l EXCEPT !.pc = "errLlm", !.q = "closed"]]
         ELSE IF A.shouldStop
         THEN interrupt([ls EXCEPT ![i] = [l EXCEPT !.pc = "stopInterrupt"]], A.currentQuery)
         ELSE IF A.isPaused
         THEN interrupt([ls EXCEPT ![i] = [l EXCEPT !.pc = "pauseInterrupt"]], A.currentQuery)
         ELSE [ls EXCEPT ![i] =
                 [l EXCEPT !.pc = CASE m = "other" -> "stream"
                                    [] m = "tool_use" -> "toolSpan"
                                    [] m = "result_success" -> "resultOk"
                                    [] m = "result_error" -> "resultErr"]]]
    /\ UNCHANGED <<agent, sub, traces, spans, ctx, ret, processes>>

\* a tool_use block: startSpan('tool_<name>', 'tool', {parentSpanId: llmSpanId})
LoopToolSpan(a, i) ==
    /\ loop[a][i].pc = "toolSpan"
    /\ LET r == startSpan(traces, spans, ctx, "tool", None, loop[a][i].llmSpan)
       IN  /\ spans' = r.spans
           /\ ctx' = r.ctx
           /\ loop' = [loop EXCEPT ![a][i].toolSpans = Append(@, r.id),
                                   ![a][i].pc = "stream"]
    /\ UNCHANGED <<agent, sub, traces, ret, processes>>

\* a result message, subtype success: endSpan(llmSpanId, 'completed'), then
\* sleepRequested is set if this.sleepUntil is
LoopResultOk(a, i) ==
    /\ loop[a][i].pc = "resultOk"
    /\ LET r == endSpan(spans, ctx, loop[a][i].llmSpan, "completed")
       IN  /\ spans' = r.spans
           /\ ctx' = r.ctx
    /\ loop' = [loop EXCEPT ![a][i].sleepRequested = @ \/ agent[a].sleepUntil,
                            ![a][i].pc = "stream"]
    /\ UNCHANGED <<agent, sub, traces, ret, processes>>

\* a result message, any other subtype: endSpan(llmSpanId, 'error')
LoopResultErr(a, i) ==
    /\ loop[a][i].pc = "resultErr"
    /\ LET r == endSpanOpt(spans, ctx, loop[a][i].llmSpan, "error", "message")
       IN  /\ spans' = r.spans
           /\ ctx' = r.ctx
    /\ loop' = [loop EXCEPT ![a][i].pc = "stream"]
    /\ UNCHANGED <<agent, sub, traces, ret, processes>>

\* runCycle once the tool spans are ended: the sleep wait (status sleeping, the
\* timer armed), or the cleanup and the return into withSpan's endSpan.
\* `positive` is sleepUntil - now > 0.
AfterTools(a, i, l, positive) ==
    IF l.sleepRequested /\ agent[a].sleepUntil /\ positive
    THEN /\ agent' = [agent EXCEPT ![a].status = "sleeping", ![a].sleepTimeout = "armed"]
         /\ loop' = [loop EXCEPT ![a][i] = [l EXCEPT !.pc = "sleepWait"]]
    ELSE /\ agent' = [agent EXCEPT ![a].sleepUntil = IF l.sleepRequested THEN FALSE ELSE @,
                                   ![a].sleepCycle = IF l.sleepRequested THEN 0 ELSE @,
                                   ![a].currentQuery = None]
         /\ loop' = [loop EXCEPT ![a][i] = [l EXCEPT !.pc = "endLlm"]]

\* the stream is left: the first remaining tool span is ended (await), or,
\* with none, runCycle goes on
LeaveStream(a, i, positive) ==
    LET l == [loop[a][i] EXCEPT !.q = "closed", !.toEnd = loop[a][i].toolSpans] IN
    IF l.toEnd # <<>>
    THEN /\ loop' = [loop EXCEPT ![a][i] = [l EXCEPT !.pc = "endTools"]]
         /\ UNCHANGED agent
    ELSE AfterTools(a, i, l, positive)

\* the engine's stream finishes (after the result, or after an interrupt)
StreamEnd(a, i) ==
    /\ loop[a][i].pc = "stream" /\ loop[a][i].q = "open"
    /\ \E positive \in BOOLEAN : LeaveStream(a, i, positive)
    /\ UNCHANGED <<sub, traces, spans, ctx, ret, processes>>

\* the engine's stream throws: catch, currentQuery = undefined, rethrow
StreamThrow(a, i) ==
    /\ loop[a][i].pc = "stream" /\ loop[a][i].q = "open"
    /\ loop' = [loop EXCEPT ![a][i].pc = "errLlm", ![a][i].q = "closed"]
    /\ agent' = [agent EXCEPT ![a].currentQuery = None]
    /\ UNCHANGED <<sub, traces, spans, ctx, ret, processes>>

\* `break` after the interrupt of the stop check, or after the pause promise
\* of the pause check was resolved
LoopBreak(a, i) ==
    /\ loop[a][i].pc \in {"stopInterrupt", "cycleResumed"}
    /\ \E positive \in BOOLEAN : LeaveStream(a, i, positive)
    /\ UNCHANGED <<sub, traces, spans, ctx, ret, processes>>

\* the pause check after its interrupt: the pause promise is created
LoopPauseWait(a, i) ==
    /\ loop[a][i].pc = "pauseInterrupt"
    /\ agent' = [agent EXCEPT ![a].pauseResolve = i]
    /\ loop' = [loop EXCEPT ![a][i].pc = "cycleWait"]
    /\ UNCHANGED <<sub, traces, spans, ctx, ret, processes>>

\* cycleLoop after its pause promise was resolved: continue
LoopContinue(a, i) ==
    /\ loop[a][i].pc = "loopResumed"
    /\ loop' = [loop EXCEPT ![a][i].pc = "top"]
    /\ UNCHANGED <<agent, sub, traces, spans, ctx, ret, processes>>

\* for (toolSpans): await endSpan(toolSpanId, 'completed')
LoopEndTools(a, i) ==
    /\ loop[a][i].pc = "endTools"
    /\ LET r == endSpan(spans, ctx, Head(loop[a][i].toEnd), "completed")
           l == [loop[a][i] EXCEPT !.toEnd = Tail(@)]
       IN  /\ spans' = r.spans
           /\ ctx' = r.ctx
           /\ IF l.toEnd # <<>>
              THEN loop' = [loop EXCEPT ![a][i] = l] /\ UNCHANGED agent
              ELSE \E positive \in BOOLEAN : AfterTools(a, i, l, positive)
    /\ UNCHANGED <<sub, traces, ret, processes>>

\* the sleep timer fires: sleepUntil = undefined, resolve; runCycle cleans up
SleepTimerFires(a, i) ==
    /\ loop[a][i].pc = "sleepWait"
    /\ agent[a].sleepTimeout = "armed"
    /\ agent' = [agent EXCEPT ![a].sleepUntil = FALSE, ![a].sleepCycle = 0,
                              ![a].sleepTimeout = "fired",
                              ![a].currentQuery = None]
    /\ loop' = [loop EXCEPT ![a][i].pc = "endLlm"]
    /\ UNCHANGED <<sub, traces, spans, ctx, ret, processes>>

\* withSpan('llm_query') on normal return: endSpan(spanId, 'completed')
LoopEndLlm(a, i) ==
    /\ loop[a][i].pc = "endLlm"
    /\ LET r == endSpan(spans, ctx, loop[a][i].llmSpan, "completed")
       IN  /\ spans' = r.spans
           /\ ctx' = r.ctx
    /\ loop' = [loop EXCEPT ![a][i].pc = "endCycle"]
    /\ UNCHANGED <<agent, sub, traces, ret, processes>>

\* withSpan('cycle_N') on normal return, then cycleLoop's inter-cycle delay
LoopEndCycle(a, i) ==
    /\ loop[a][i].pc = "endCycle"
    /\ LET r == endSpan(spans, ctx, loop[a][i].cycleSpan, "completed")
       IN  /\ spans' = r.spans
           /\ ctx' = r.ctx
    /\ loop' = [loop EXCEPT ![a][i].pc =
                  IF ~agent[a].sleepUntil /\ ~agent[a].shouldStop THEN "delay" ELSE "top"]
    /\ UNCHANGED <<agent, sub, traces, ret, processes>>

\* setTimeout(resolve, 1000) fires
LoopDelayFires(a, i) ==
    /\ loop[a][i].pc = "delay"
    /\ loop' = [loop EXCEPT ![a][i].pc = "top"]
    /\ UNCHANGED <<agent, sub, traces, spans, ctx, ret, processes>>

\* withSpan('llm_query') on a throw: endSpan(spanId, 'error'), rethrow
LoopErrLlm(a, i) ==
    /\ loop[a][i].pc = "errLlm"
    /\ LET r == endSpanOpt(spans, ctx, loop[a][i].llmSpan, "error", "message")
       IN  /\ spans' = r.spans
           /\ ctx' = r.ctx
    /\ loop' = [loop EXCEPT ![a][i].pc = "errCycle"]
    /\ UNCHANGED <<agent, sub, traces, ret, processes>>

\* withSpan('cycle_N') on a throw, with a cycleLoop that catches the error of
\* runCycle and goes round again
LoopErrCycleRetries(a, i) ==
    /\ loop[a][i].pc = "errCycle"
    /\ LET r == endSpanOpt(spans, ctx, loop[a][i].cycleSpan, "error", "message")
       IN  /\ spans' = r.spans
           /\ ctx' = r.ctx
    /\ loop' = [loop EXCEPT ![a][i].pc = "top"]
    /\ UNCHANGED <<agent, sub, traces, ret, processes>>

\* withSpan('cycle_N') on a throw: endSpan(spanId, 'error'); the error leaves
\* runCycle and cycleLoop, whose promise rejects
LoopErrCycle(a, i) ==
    /\ loop[a][i].pc = "errCycle"
    /\ LET r == endSpanOpt(spans, ctx, loop[a][i].cycleSpan, "error", "message")
       IN  /\ spans' = r.spans
           /\ ctx' = r.ctx
    /\ loop' = [loop EXCEPT ![a][i].pc = "crashed"]
    /\ UNCHANGED <<agent, sub, traces, ret, processes>>

\* the sleep tool's callback, called by the engine while the query runs
handleSleep(a) ==
    /\ \E i \in DOMAIN loop[a] : loop[a][i].q = "open" /\ ~loop[a][i].resultSent
    /\ agent' = [agent EXCEPT ![a].sleepUntil = TRUE, ![a].sleepCycle = agent[a].cycleCount]
    /\ UNCHANGED <<loop, sub, traces, spans, ctx, ret, processes>>

\* clearTimeout(this.sleepTimeout): an armed timer never fires
clearSleepTimeout(A) == [A EXCEPT !.sleepTimeout = "none"]

\* pause() that ends as stop() does, with `this.subAgents.clear()`
PauseTailClearsSubAgents(A) ==
    IF A.sleepTimeout # "none"
    THEN [clearSleepTimeout(A) EXCEPT !.sleepUntil = FALSE, !.sleepCycle = 0,
                                      !.pausePc = "idle", !.subAgents = {}]
    ELSE [A EXCEPT !.pausePc = "idle", !.subAgents = {}]

\* pause() after its interrupt: the sleep timeout is cleared, if there is one
PauseTail(A) ==
    IF A.sleepTimeout # "none"
    THEN [clearSleepTimeout(A) EXCEPT !.sleepUntil = FALSE, !.sleepCycle = 0,
                                      !.pausePc = "idle"]
    ELSE [A EXCEPT !.pausePc = "idle"]

\* pause(), up to `await this.currentQuery.interrupt()` or, with no query, to the end
PauseCall(a) ==
    LET A == agent[a]
        hadQuery == InFlight(loop[a])
    IN
    /\ A.pausePc = "idle"
    /\ IF A.status = "stopped"
       THEN /\ ret' = [who |-> a, op |-> "pause", res |-> "NotRunning", hadQuery |-> hadQuery,
                       intr |-> InFlightInterrupted(loop[a])]
            /\ UNCHANGED <<agent, loop, processes>>
       ELSE IF A.isPaused
       THEN /\ ret' = [who |-> a, op |-> "pause", res |-> "ok", hadQuery |-> hadQuery,
                       intr |-> InFlightInterrupted(loop[a])]
            /\ UNCHANGED <<agent, loop, processes>>
       ELSE LET P == [A EXCEPT !.isPaused = TRUE, !.status = "paused"]
                ls == interrupt(loop[a], A.currentQuery)
            IN  /\ loop' = [loop EXCEPT ![a] = ls]
                /\ IF A.currentQuery # None
                   THEN /\ agent' = [agent EXCEPT ![a] =
                                       [P EXCEPT !.pausePc = "interrupting",
                                                 !.pauseHadQuery = hadQuery,
                                                 !.pauseIntr = InFlightInterrupted(ls)]]
                        /\ ret' = Ret(a, "pause", "pending")
                   ELSE /\ agent' = [agent EXCEPT ![a] = PauseTail(P)]
                        /\ ret' = [who |-> a, op |-> "pause", res |-> "ok", hadQuery |-> hadQuery,
                                   intr |-> InFlightInterrupted(ls)]
    /\ UNCHANGED <<sub, traces, spans, ctx, processes>>

\* pause() after `await this.currentQuery.interrupt()`
PauseDone(a) ==
    /\ agent[a].pausePc = "interrupting"
    /\ agent' = [agent EXCEPT ![a] = PauseTail(@)]
    /\ ret' = [who |-> a, op |-> "pause", res |-> "ok", hadQuery |-> agent[a].pauseHadQuery,
               intr |-> agent[a].pauseIntr]
    /\ UNCHANGED <<loop, sub, traces, spans, ctx, processes>>

\* resume()
ResumeCall(a) ==
    LET A == agent[a] IN
    IF ~A.isPaused
    THEN /\ ret' = Ret(a, "resume", "noop")
         /\ UNCHANGED <<agent, loop, sub, traces, spans, ctx, processes>>
    ELSE /\ agent' = [agent EXCEPT ![a].isPaused = FALSE, ![a].status = "running",
                                   ![a].pauseResolve = None]
         /\ loop' = [loop EXCEPT ![a] = resolvePause(@, A.pauseResolve)]
         /\ ret' = Ret(a, "resume", "ok")
         /\ UNCHANGED <<sub, traces, spans, ctx, processes>>

\* SubAgentRunner.stop() behind its interrupt: a researching sub-agent becomes failed
SubStopTail(S) ==
    IF S.status = "researching"
    THEN [S EXCEPT !.status = "failed", !.error = "Interrupted", !.stopPc = "idle"]
    ELSE [S EXCEPT !.stopPc = "idle"]

\* SubAgentRunner.stop(), up to `await this.currentQuery.interrupt()` or, with
\* no query, to its end
SubStopEnter(S) ==
    IF S.currentQuery
    THEN [S EXCEPT !.qIntr = TRUE, !.stopPc = "interrupting"]
    ELSE SubStopTail(S)

\* stop() returns to its caller; when that is removeAgent, the agent is deleted
\* from the manager's registry on a normal return, and removeAgent rethrows
\* what stop() threw
StopReturns(B, normal) ==
    IF B.removing
    THEN [B EXCEPT !.removing = FALSE, !.registered = IF normal THEN FALSE ELSE @]
    ELSE B

StopRet(a, B, res) ==
    IF B.removing
    THEN Ret(a, "removeAgent", IF res = "LoopError" THEN res ELSE "true")
    ELSE Ret(a, "stop", res)

\* stop() from `this.subAgents.clear()` to `await this.cycleLoopPromise`, and on to
\* `await endTrace(...)` or to the end when there is no loop or no trace
StopTail(a, A, ls) ==
    LET B == [(IF A.sleepTimeout # "none" THEN clearSleepTimeout(A) ELSE A)
                 EXCEPT !.subAgents = {}, !.pauseResolve = None]
    IN  /\ loop' = [loop EXCEPT ![a] = resolvePause(ls, A.pauseResolve)]
        /\ UNCHANGED sub
        /\ IF B.cycleLoopPromise # None
           THEN /\ agent' = [agent EXCEPT ![a] = [B EXCEPT !.stopPc = "waitLoop"]]
                /\ ret' = Ret(a, "stop", "pending")
           ELSE IF B.traceId # None
           THEN /\ agent' = [agent EXCEPT ![a] =
                               [B EXCEPT !.stopPc = "endTrace", !.stopTrace = B.traceId]]
                /\ ret' = Ret(a, "stop", "pending")
           ELSE /\ agent' = [agent EXCEPT ![a] =
                               StopReturns([B EXCEPT !.stopPc = "idle", !.status = "stopped"],
                                           TRUE)]
                /\ ret' = StopRet(a, B, "ok")

\* stop(): `for (const subAgent of this.subAgents.values()) await subAgent.stop()`.
\* The iterator is live; stopSubs holds the sub-agents this call of stop() has
\* visited. The next one's stop() is called and awaited; with none left the
\* loop is over.
StopSubAgents(a, A, ls) ==
    LET rest == A.subAgents \ A.stopSubs IN
    IF rest = {}
    THEN StopTail(a, A, ls)
    ELSE LET s == CHOOSE x \in rest : TRUE IN
         /\ sub' = [sub EXCEPT ![s] = SubStopEnter(@)]
         /\ agent' = [agent EXCEPT ![a] =
                         [A EXCEPT !.stopPc = "subAgents", !.stopSubs = @ \cup {s}]]
         /\ loop' = [loop EXCEPT ![a] = ls]
         /\ ret' = Ret(a, "stop", "pending")

\* stop(), up to its first await; A is the agent as the caller hands it over
StopBody(a, A) ==
    /\ A.stopPc = "idle"
    /\ IF A.status = "stopped"
       THEN /\ ret' = StopRet(a, A, "noop")
            /\ agent' = [agent EXCEPT ![a] = StopReturns(A, TRUE)]
            /\ UNCHANGED <<loop, sub, processes>>
       ELSE LET S == [A EXCEPT !.shouldStop = TRUE, !.isPaused = FALSE, !.stopSubs = {}]
                ls == interrupt(loop[a], A.currentQuery)
            IN  IF A.currentQuery # None
                THEN /\ agent' = [agent EXCEPT ![a] = [S EXCEPT !.stopPc = "interrupting"]]
                     /\ loop' = [loop EXCEPT ![a] = ls]
                     /\ ret' = Ret(a, "stop", "pending")
                     /\ UNCHANGED sub
                ELSE StopSubAgents(a, S, loop[a])
    /\ UNCHANGED <<traces, spans, ctx, processes>>

StopCall(a) == StopBody(a, agent[a])

\* stop() after `await this.currentQuery.interrupt()`
StopInterrupted(a) ==
    LET A == agent[a] IN
    /\ A.stopPc = "interrupting"
    /\ StopSubAgents(a, A, loop[a])
    /\ UNCHANGED <<traces, spans, ctx, processes>>

\* stop() after `await subAgent.stop()`: the for loop goes on
StopSubStopped(a) ==
    LET A == agent[a] IN
    /\ A.stopPc = "subAgents"
    /\ \A s \in A.stopSubs : sub[s].stopPc = "idle"
    /\ StopSubAgents(a, A, loop[a])
    /\ UNCHANGED <<traces, spans, ctx, processes>>

\* stop() after `await this.cycleLoopPromise`: the loop returned, or it had
\* thrown and the await rethrows out of stop()
StopLoopDone(a) ==
    LET A == agent[a] IN
    /\ A.stopPc = "waitLoop"
    /\ A.cycleLoopPromise \in DOMAIN loop[a]
    /\ loop[a][A.cycleLoopPromise].pc \in {"done", "crashed"}
    /\ IF loop[a][A.cycleLoopPromise].pc = "crashed"
       THEN /\ agent' = [agent EXCEPT ![a] = StopReturns([A EXCEPT !.stopPc = "idle"], FALSE)]
            /\ ret' = StopRet(a, A, "LoopError")
       ELSE IF A.traceId # None
       THEN /\ agent' = [agent EXCEPT ![a].stopPc = "endTrace", ![a].stopTrace = A.traceId]
            /\ UNCHANGED ret
       ELSE /\ agent' = [agent EXCEPT ![a] =
                           StopReturns([A EXCEPT !.stopPc = "idle", !.status = "stopped"], TRUE)]
            /\ ret' = StopRet(a, A, "ok")
    /\ UNCHANGED <<loop, sub, traces, spans, ctx, processes>>

\* stop() after `await endTrace(this.traceId, 'completed')`
StopEndTrace(a) ==
    /\ agent[a].stopPc = "endTrace"
    /\ LET r == endTrace(traces, ctx, agent[a].stopTrace, "completed")
       IN  /\ traces' = r.traces
           /\ ctx' = r.ctx
    /\ agent' = [agent EXCEPT ![a] =
                   StopReturns([@ EXCEPT !.traceId = None, !.status = "stopped",
                                         !.stopPc = "idle", !.stopTrace = None], TRUE)]
    /\ ret' = StopRet(a, agent[a], "ok")
    /\ UNCHANGED <<loop, sub, spans, processes>>

\* ------------------------------------------------------------ one agent
\* the steps of the program itself: continuations, timers, the engine
AgentInternal(a) ==
    \/ StartCreated(a)
    \/ PauseDone(a)
    \/ StopInterrupted(a)
    \/ StopLoopDone(a)
    \/ StopEndTrace(a)
    \/ handleSleep(a)
    \/ \E i \in DOMAIN loop[a] : LoopTop(a, i)
    \/ \E i \in DOMAIN loop[a] : LoopCycleSpan(a, i)
    \/ \E i \in DOMAIN loop[a] : LoopLlmSpan(a, i)
    \/ \E i \in DOMAIN loop[a] : \E m \in MsgTypes : StreamMsg(a, i, m)
    \/ \E i \in DOMAIN loop[a] : StreamEnd(a, i)
    \/ \E i \in DOMAIN loop[a] : StreamThrow(a, i)
    \/ \E i \in DOMAIN loop[a] : LoopToolSpan(a, i)
    \/ \E i \in DOMAIN loop[a] : LoopResultOk(a, i)
    \/ \E i \in DOMAIN loop[a] : LoopResultErr(a, i)
    \/ \E i \in DOMAIN loop[a] : LoopBreak(a, i)
    \/ \E i \in DOMAIN loop[a] : LoopPauseWait(a, i)
    \/ \E i \in DOMAIN loop[a] : LoopContinue(a, i)
    \/ \E i \in DOMAIN loop[a] : LoopEndTools(a, i)
    \/ \E i \in DOMAIN loop[a] : SleepTimerFires(a, i)
    \/ \E i \in DOMAIN loop[a] : LoopEndLlm(a, i)
    \/ \E i \in DOMAIN loop[a] : LoopEndCycle(a, i)
    \/ \E i \in DOMAIN loop[a] : LoopDelayFires(a, i)
    \/ \E i \in DOMAIN loop[a] : LoopErrLlm(a, i)
    \/ \E i \in DOMAIN loop[a] : LoopErrCycle(a, i)

\* the calls made from outside (the HTTP routes, the manager)
AgentCalls(a) ==
    \/ StartCall(a)
    \/ PauseCall(a)
    \/ ResumeCall(a)
    \/ StopCall(a)

Next == AgentCalls("a1") \/ AgentInternal("a1")

Spec == Init /\ [][Next]_vars

\* What the runtime guarantees: a continuation whose awaited promise settled
\* runs (each async call is its own chain of continuations), an armed timer
\* fires, and the engine's stream delivers a message or finishes.
LoopContinuation(a) ==
    \E i \in DOMAIN loop[a] :
          \/ LoopTop(a, i) \/ LoopCycleSpan(a, i) \/ LoopLlmSpan(a, i)
          \/ LoopToolSpan(a, i) \/ LoopResultOk(a, i) \/ LoopResultErr(a, i)
          \/ LoopBreak(a, i) \/ LoopPauseWait(a, i) \/ LoopContinue(a, i)
          \/ LoopEndTools(a, i) \/ LoopEndLlm(a, i) \/ LoopEndCycle(a, i)
          \/ LoopErrLlm(a, i) \/ LoopErrCycle(a, i)

StopContinuation(a) == StopInterrupted(a) \/ StopLoopDone(a) \/ StopEndTrace(a)

Timers(a) == \E i \in DOMAIN loop[a] : SleepTimerFires(a, i) \/ LoopDelayFires(a, i)

StreamSettles(a) ==
    \E i \in DOMAIN loop[a] :
       \/ \E m \in MsgTypes : StreamMsg(a, i, m)
       \/ StreamEnd(a, i)

FairSpec ==
    /\ Init /\ [][Next]_vars
    /\ WF_vars(LoopContinuation("a1"))
    /\ WF_vars(StartCreated("a1"))
    /\ WF_vars(PauseDone("a1"))
    /\ WF_vars(StopContinuation("a1"))
    /\ WF_vars(Timers("a1"))
    /\ WF_vars(StreamSettles("a1"))

\* --------------------------------------------- OrchestratorManager (manager.ts)
\* spawn(): the agent is constructed and put in the registry, then start() is
\* called on it (a fresh id each time, so once per agent)
MgrSpawnWith(a, options) ==
    /\ ~agent[a].registered
    /\ agent[a].starts = 0
    /\ agent' = [agent EXCEPT ![a].registered = TRUE,
                              ![a].memoryPath = memoryPathOf(a),
                              ![a].resultsPath = resultsPathOf(a, options),
                              ![a].memoryFile =
                                  IF options.memoryTemplate # <<>> /\ ~@.exists
                                  THEN File(encodeUtf8(options.memoryTemplate)) ELSE @,
                              ![a].shouldStop = FALSE, ![a].isPaused = FALSE,
                              ![a].status = "running", ![a].startsPending = @ + 1,
                              ![a].starts = @ + 1]
    /\ ret' = Ret(a, "start", "pending")
    /\ UNCHANGED <<loop, sub, traces, spans, ctx, processes>>

\* spawn(instructions) with no options
NoOptions == [memoryTemplate |-> <<>>, resultsPath |-> <<>>]
MgrSpawn(a) == MgrSpawnWith(a, NoOptions)

\* spawn() with options: a seeded memory file or none, the default results
\* path or one the caller names
SpawnOptions ==
    [memoryTemplate : {<<>>, <<"seed">>},
     resultsPath : {<<>>, <<"cwd", "out", "r.md">>, <<"cwd", "out", "deep", "r.md">>}]

PathNext ==
    \/ \E a \in AgentIds, o \in SpawnOptions : MgrSpawnWith(a, o)
    \/ \E a \in AgentIds : StartCreated(a)

PathSpec == Init /\ [][PathNext]_vars

\* ------------------------------------------- the memory file, read and written
\* contents a caller writes, and instructions a caller passes to readMemory
Memos == {<<>>, <<"notes">>, <<"notes", LoneSurrogate>>}
Instrs == {AgentInstructions, <<"find", "sources">>}

\* await writeMemory(memoryPath, content, agentId) on the memory file of a
WriteMemory(a, content, writeOk) ==
    /\ agent' = [agent EXCEPT ![a].memoryFile = writeMemory(@, content, writeOk)]
    /\ ret' = Ret(a, "writeMemory", "returned")
    /\ UNCHANGED <<loop, sub, traces, spans, ctx, processes>>

\* await readMemory(memoryPath, agentId, instructions, createdAt) on it
ReadMemory(a, instructions, readOk) ==
    /\ agent' = [agent EXCEPT ![a].memoryRead =
                     readMemory(agent[a].memoryFile, a, instructions, CreatedAt, readOk)]
    /\ ret' = Ret(a, "readMemory", "returned")
    /\ UNCHANGED <<loop, sub, traces, spans, ctx, processes>>

MemFileNext ==
    \/ \E a \in AgentIds, content \in Memos, writeOk \in BOOLEAN : WriteMemory(a, content, writeOk)
    \/ \E a \in AgentIds, instructions \in Instrs, readOk \in BOOLEAN :
           ReadMemory(a, instructions, readOk)

MemFileSpec == Init /\ [][MemFileNext]_vars

\* removeAgent with the registry lookup's result not tested: stop() is called
\* on undefined
RemoveCallNoLookup(id) ==
    IF ~agent[id].registered
    THEN /\ ret' = Ret(id, "removeAgent", "TypeError")
         /\ UNCHANGED <<agent, loop, sub, traces, spans, ctx, processes>>
    ELSE StopBody(id, [agent[id] EXCEPT !.removing = TRUE])

\* removeAgent(id): false for an id the registry does not hold, else
\* `await agent.stop()`, whose return deletes the agent (StopReturns)
RemoveCall(id) ==
    IF ~agent[id].registered
    THEN /\ ret' = Ret(id, "removeAgent", "false")
         /\ UNCHANGED <<agent, loop, sub, traces, spans, ctx, processes>>
    ELSE StopBody(id, [agent[id] EXCEPT !.removing = TRUE])

\* the routes: POST /:id/pause and /:id/resume reach the agent through getAgent
RoutePause(a) == agent[a].registered /\ PauseCall(a)
RouteResume(a) == agent[a].registered /\ ResumeCall(a)

MgrNext ==
    \/ MgrSpawn("a1")
    \/ RoutePause("a1")
    \/ RouteResume("a1")
    \/ RemoveCall("a1")
    \/ RemoveCall("a2")
    \/ AgentInternal("a1")

MgrSpec == Init /\ [][MgrNext]_vars

MgrFairSpec ==
    /\ Init /\ [][MgrNext]_vars
    /\ WF_vars(LoopContinuation("a1"))
    /\ WF_vars(StartCreated("a1"))
    /\ WF_vars(PauseDone("a1"))
    /\ WF_vars(StopContinuation("a1"))
    /\ WF_vars(Timers("a1"))
    /\ WF_vars(StreamSettles("a1"))

\* ------------------------------------------------ one agent, started again
\* start() may be called again once the status is 'stopped'; the engine only
\* answers with a successful result, so that the cycles themselves stay short
RestartCalls(a) ==
    \/ StartBody(a, MaxRestarts)
    \/ PauseCall(a)
    \/ ResumeCall(a)
    \/ StopCall(a)

RestartInternal(a) ==
    \/ StartCreated(a)
    \/ PauseDone(a)
    \/ StopInterrupted(a)
    \/ StopLoopDone(a)
    \/ StopEndTrace(a)
    \/ \E i \in DOMAIN loop[a] : LoopTop(a, i)
    \/ \E i \in DOMAIN loop[a] : LoopCycleSpan(a, i)
    \/ \E i \in DOMAIN loop[a] : LoopLlmSpan(a, i)
    \/ \E i \in DOMAIN loop[a] : StreamMsg(a, i, "result_success")
    \/ \E i \in DOMAIN loop[a] : StreamEnd(a, i)
    \/ \E i \in DOMAIN loop[a] : LoopResultOk(a, i)
    \/ \E i \in DOMAIN loop[a] : LoopBreak(a, i)
    \/ \E i \in DOMAIN loop[a] : LoopPauseWait(a, i)
    \/ \E i \in DOMAIN loop[a] : LoopContinue(a, i)
    \/ \E i \in DOMAIN loop[a] : LoopEndLlm(a, i)
    \/ \E i \in DOMAIN loop[a] : LoopEndCycle(a, i)
    \/ \E i \in DOMAIN loop[a] : LoopDelayFires(a, i)
    \/ \E i \in DOMAIN loop[a] : LoopErrLlm(a, i)
    \/ \E i \in DOMAIN loop[a] : LoopErrCycle(a, i)

RestartNext == RestartCalls("a1") \/ RestartInternal("a1")

RestartSpec == Init /\ [][RestartNext]_vars

\* a cycleLoop() invocation is inside runCycle(): its cycle has begun and
\* runCycle has neither returned nor thrown
InCycle(l) == l.pc \notin {"top", "loopWait", "loopResumed", "delay", "done", "crashed"}

\* --------------------------------------------------- SubAgentRunner (agent.ts)
SubMsgTypes == {"other", "tool_use", "save_report", "result_success", "result_error"}

\* spawnSubAgent, up to `await startSpan(...)`: the tool callback runs while the
\* agent's query is in flight; the parent of the spawn span is read from the
\* active context
SpawnCall(a, s) ==
    /\ InFlight(loop[a])
    /\ sub[s].spawnPc = "idle"
    /\ sub' = [sub EXCEPT ![s].spawnPc = "starting", ![s].spawnParent = ctx.spanId]
    /\ UNCHANGED <<agent, loop, traces, spans, ctx, ret, processes>>

\* spawnSubAgent, after startSpan: the runner is constructed, registered, given
\* the trace context, and run() is called without await, so that it executes up
\* to its first await (status researching, the sub_agent span requested)
SpawnRegister(a, s) ==
    /\ sub[s].spawnPc = "starting"
    /\ LET r == startSpan(traces, spans, ctx, "sub_agent", agent[a].traceId,
                          sub[s].spawnParent)
       IN  /\ spans' = r.spans
           /\ ctx' = r.ctx
           /\ sub' = [sub EXCEPT ![s] =
                 [@ EXCEPT !.spawnPc = "ending", !.spawnSpan = r.id,
                           !.traceId = agent[a].traceId,
                           !.parentSpanId = IF agent[a].traceId # None THEN r.id ELSE None,
                           !.status = "researching", !.pc = "startSubSpan"]]
    /\ agent' = [agent EXCEPT ![a].subAgents = @ \cup {s}]
    /\ UNCHANGED <<loop, traces, ret, processes>>

\* spawnSubAgent with `await subAgent.run()`: it goes on once run() has settled
SpawnEndAwaitsRun(a, s) ==
    /\ sub[s].spawnPc = "ending"
    /\ sub[s].pc \in {"done", "rejected"}
    /\ LET r == endSpan(spans, ctx, sub[s].spawnSpan, "completed")
       IN  /\ spans' = r.spans
           /\ ctx' = r.ctx
    /\ sub' = [sub EXCEPT ![s].spawnPc = "done"]
    /\ UNCHANGED <<agent, loop, traces, ret, processes>>

\* spawnSubAgent: endSpan(spanId, 'completed') and the info is returned
SpawnEnd(a, s) ==
    /\ sub[s].spawnPc = "ending"
    /\ LET r == endSpan(spans, ctx, sub[s].spawnSpan, "completed")
       IN  /\ spans' = r.spans
           /\ ctx' = r.ctx
    /\ sub' = [sub EXCEPT ![s].spawnPc = "done"]
    /\ UNCHANGED <<agent, loop, traces, ret, processes>>

\* run(): the sub_agent span exists; setTraceContext, the report directory,
\* then withSpan('sub_agent_llm_query') -> startSpan
SubStartSpan(s) ==
    /\ sub[s].pc = "startSubSpan"
    /\ LET r == startSpan(traces, spans, ctx, "sub_agent", sub[s].traceId,
                          sub[s].parentSpanId)
       IN  /\ spans' = r.spans
           /\ ctx' = IF sub[s].traceId # None
                     THEN [traceId |-> sub[s].traceId, spanId |-> r.id]
                     ELSE r.ctx
           /\ sub' = [sub EXCEPT ![s].subSpan = r.id, ![s].pc = "startLlmSpan"]
    /\ UNCHANGED <<agent, loop, traces, ret, processes>>

\* run(): the llm span exists; the query is created and its stream awaited
SubLlmSpan(s) ==
    /\ sub[s].pc = "startLlmSpan"
    /\ LET r == startSpan(traces, spans, ctx, "llm", sub[s].traceId, sub[s].subSpan)
       IN  /\ spans' = r.spans
           /\ ctx' = r.ctx
           /\ sub' = [sub EXCEPT ![s] =
                 [@ EXCEPT !.llmSpan = r.id, !.pc = "stream", !.q = "open",
                           !.currentQuery = TRUE]]
    /\ UNCHANGED <<agent, loop, traces, ret, processes>>

\* messageCount > MAX_MESSAGES with the comparison moved one message later
OverCeilingLate(n) == n > MAX_MESSAGES + 1

\* if (messageCount > MAX_MESSAGES)
OverCeiling(n) == n > MAX_MESSAGES

\* the ceiling branch after its interrupt: status failed, the error, break, and
\* `this.currentQuery = undefined` behind the loop
CeilingBreak(S) ==
    [S EXCEPT !.status = "failed", !.error = "ceiling", !.currentQuery = FALSE,
              !.q = "closed", !.pc = "endLlm"]

\* for await: one message arrives; messageCount++, the ceiling check, then the
\* message's type, each up to its first await
SubStreamMsg(s, m) ==
    LET S == sub[s]
        n == S.messageCount + 1
        R == [S EXCEPT !.messageCount = n] IN
    /\ S.pc = "stream" /\ S.q = "open" /\ ~S.resultSent
    /\ m \in {"tool_use", "save_report"} => S.tools < MaxTools
    /\ m \in {"result_success", "result_error"} => ~S.toolPending
    /\ sub' = [sub EXCEPT ![s] =
         IF OverCeiling(n)
         THEN IF S.currentQuery
              THEN [R EXCEPT !.qIntr = TRUE, !.pc = "ceilingInterrupt"]
              ELSE CeilingBreak(R)
         ELSE LET P == [R EXCEPT !.processed = @ + 1] IN
              CASE m = "other" -> P
                [] m = "tool_use" -> [P EXCEPT !.tools = @ + 1, !.pc = "toolSpan"]
                [] m = "save_report" -> [P EXCEPT !.tools = @ + 1, !.pc = "saveSpan",
                                                  !.toolPending = TRUE]
                [] OTHER ->
                     LET T == [P EXCEPT !.resultSent = TRUE, !.toEnd = P.toolSpans] IN
                     IF T.toEnd # <<>>
                     THEN [T EXCEPT !.pc = IF m = "result_success"
                                           THEN "resultToolsOk" ELSE "resultToolsErr"]
                     ELSE [T EXCEPT !.pc = IF m = "result_success"
                                           THEN "resultOk" ELSE "resultErr"]]
    /\ UNCHANGED <<agent, loop, traces, spans, ctx, ret, processes>>

\* the ceiling branch once `await this.currentQuery.interrupt()` returned
SubCeiling(s) ==
    /\ sub[s].pc = "ceilingInterrupt"
    /\ sub' = [sub EXCEPT ![s] = CeilingBreak(@)]
    /\ UNCHANGED <<agent, loop, traces, spans, ctx, ret, processes>>

\* a tool_use block other than saveReport: its span is started and kept
SubToolSpan(s) ==
    /\ sub[s].pc = "toolSpan"
    /\ LET r == startSpan(traces, spans, ctx, "tool", sub[s].traceId, sub[s].llmSpan)
       IN  /\ spans' = r.spans
           /\ ctx' = r.ctx
           /\ sub' = [sub EXCEPT ![s].toolSpans = Append(@, r.id), ![s].pc = "stream"]
    /\ UNCHANGED <<agent, loop, traces, ret, processes>>

\* a saveReport tool_use block: its span is started, reportSaved = true, and
\* endSpan is awaited
SubSaveSpan(s) ==
    /\ sub[s].pc = "saveSpan"
    /\ LET r == startSpan(traces, spans, ctx, "tool", sub[s].traceId, sub[s].llmSpan)
       IN  /\ spans' = r.spans
           /\ ctx' = r.ctx
           /\ sub' = [sub EXCEPT ![s].toolSpans = Append(@, r.id),
                                 ![s].reportSaved = TRUE, ![s].pc = "saveEnd"]
    /\ UNCHANGED <<agent, loop, traces, ret, processes>>

\* the saveReport span is ended and removed from toolSpans
SubSaveEnd(s) ==
    /\ sub[s].pc = "saveEnd"
    /\ LET id == sub[s].toolSpans[Len(sub[s].toolSpans)]
           r == endSpan(spans, ctx, id, "completed")
       IN  /\ spans' = r.spans
           /\ ctx' = r.ctx
    /\ sub' = [sub EXCEPT ![s].toolSpans = SubSeq(@, 1, Len(@) - 1), ![s].pc = "stream"]
    /\ UNCHANGED <<agent, loop, traces, ret, processes>>

\* the markdown the model hands to saveReport
ReportContents == {"findings", ""}

\* the saveReport tool: the metadata header, a blank line, the content
reportContent(content) == "# Sub-Agent Research Report ... " \o content

\* the engine calls the saveReport tool's handler: writeFile succeeds and the
\* file holds header and content, or mkdir/writeFile throws, the handler
\* catches it and answers with the error text; run() is not told either way
SaveReportTool(s) ==
    /\ sub[s].toolPending
    /\ \E content \in ReportContents, written \in BOOLEAN :
         sub' = [sub EXCEPT ![s].toolPending = FALSE,
                            ![s].file = IF written THEN reportContent(content) ELSE @]
    /\ UNCHANGED <<agent, loop, traces, spans, ctx, ret, processes>>

\* a result message: the remaining tool spans are ended one by one
SubResultEndTool(s) ==
    /\ sub[s].pc \in {"resultToolsOk", "resultToolsErr"}
    /\ LET r == endSpan(spans, ctx, Head(sub[s].toEnd), "completed")
       IN  /\ spans' = r.spans
           /\ ctx' = r.ctx
    /\ sub' = [sub EXCEPT ![s].toEnd = Tail(@),
                          ![s].pc = IF Len(sub[s].toEnd) > 1 THEN @
                                    ELSE IF @ = "resultToolsOk" THEN "resultOk"
                                    ELSE "resultErr"]
    /\ UNCHANGED <<agent, loop, traces, ret, processes>>

\* a result message, subtype success: endSpan(llmSpanId, 'completed'), then
\* completed if the report was saved, else failed with 'Report not saved'
SubResultOk(s) ==
    /\ sub[s].pc = "resultOk"
    /\ LET r == endSpan(spans, ctx, sub[s].llmSpan, "completed")
       IN  /\ spans' = r.spans
           /\ ctx' = r.ctx
    /\ sub' = [sub EXCEPT ![s].status = IF sub[s].reportSaved THEN "completed" ELSE "failed",
                          ![s].completedAt = sub[s].reportSaved,
                          ![s].error = IF sub[s].reportSaved THEN @ ELSE "notSaved",
                          ![s].pc = "stream"]
    /\ UNCHANGED <<agent, loop, traces, ret, processes>>

\* a result message, any other subtype: endSpan(llmSpanId, 'error'), failed
SubResultErr(s) ==
    /\ sub[s].pc = "resultErr"
    /\ LET r == endSpanOpt(spans, ctx, sub[s].llmSpan, "error", "message")
       IN  /\ spans' = r.spans
           /\ ctx' = r.ctx
    /\ sub' = [sub EXCEPT ![s].status = "failed", ![s].error = "engine", ![s].pc = "stream"]
    /\ UNCHANGED <<agent, loop, traces, ret, processes>>

\* the engine's stream finishes: this.currentQuery = undefined
SubStreamEnd(s) ==
    /\ sub[s].pc = "stream" /\ sub[s].q = "open"
    /\ sub' = [sub EXCEPT ![s].currentQuery = FALSE, ![s].q = "closed", ![s].pc = "endLlm"]
    /\ UNCHANGED <<agent, loop, traces, spans, ctx, ret, processes>>

\* the engine's stream throws instead of delivering its result: catch, failed
\* with the exception's message, currentQuery = undefined, rethrow
SubStreamThrow(s) ==
    /\ sub[s].pc = "stream" /\ sub[s].q = "open" /\ ~sub[s].resultSent
    /\ sub' = [sub EXCEPT ![s].status = "failed", ![s].error = "exception",
                          ![s].currentQuery = FALSE, ![s].q = "closed", ![s].pc = "errLlm"]
    /\ UNCHANGED <<agent, loop, traces, spans, ctx, ret, processes>>

\* withSpan('sub_agent_llm_query') on normal return: endSpan(spanId, 'completed')
SubEndLlm(s) ==
    /\ sub[s].pc = "endLlm"
    /\ LET r == endSpan(spans, ctx, sub[s].llmSpan, "completed")
       IN  /\ spans' = r.spans
           /\ ctx' = r.ctx
    /\ sub' = [sub EXCEPT ![s].pc = "endSub"]
    /\ UNCHANGED <<agent, loop, traces, ret, processes>>

\* run(): endSpan(subAgentSpanId, completed or error by this.status)
SubEndSub(s) ==
    /\ sub[s].pc = "endSub"
    /\ LET r == endSpan(spans, ctx, sub[s].subSpan,
                        IF sub[s].status = "completed" THEN "completed" ELSE "error")
       IN  /\ spans' = r.spans
           /\ ctx' = r.ctx
    /\ sub' = [sub EXCEPT ![s].pc = "endSubOuter"]
    /\ UNCHANGED <<agent, loop, traces, ret, processes>>

\* withSpan('sub_agent_...') on normal return: endSpan(spanId, 'completed');
\* run() resolves
SubEndSubOuter(s) ==
    /\ sub[s].pc = "endSubOuter"
    /\ LET r == endSpan(spans, ctx, sub[s].subSpan, "completed")
       IN  /\ spans' = r.spans
           /\ ctx' = r.ctx
    /\ sub' = [sub EXCEPT ![s].pc = "done"]
    /\ UNCHANGED <<agent, loop, traces, ret, processes>>

\* withSpan('sub_agent_llm_query') on a throw: endSpan(spanId, 'error'), rethrow
SubErrLlm(s) ==
    /\ sub[s].pc = "errLlm"
    /\ LET r == endSpanOpt(spans, ctx, sub[s].llmSpan, "error", "message")
       IN  /\ spans' = r.spans
           /\ ctx' = r.ctx
    /\ sub' = [sub EXCEPT ![s].pc = "errSub"]
    /\ UNCHANGED <<agent, loop, traces, ret, processes>>

\* run() rejecting with no .catch() on the detached promise: the rejection
\* reaches the parent, whose loop dies with it
SubErrSubUnhandled(s) ==
    /\ sub[s].pc = "errSub"
    /\ LET r == endSpanOpt(spans, ctx, sub[s].subSpan, "error", "message")
       IN  /\ spans' = r.spans
           /\ ctx' = r.ctx
    /\ sub' = [sub EXCEPT ![s].pc = "rejected"]
    /\ loop' = [a \in AgentIds |->
                 IF s \in agent[a].subAgents
                 THEN [i \in DOMAIN loop[a] |-> [loop[a][i] EXCEPT !.pc = "crashed"]]
                 ELSE loop[a]]
    /\ UNCHANGED <<agent, traces, ret, processes>>

\* withSpan('sub_agent_...') on a throw: endSpan(spanId, 'error'); run() rejects
\* into the .catch() of spawnSubAgent, which logs it
SubErrSub(s) ==
    /\ sub[s].pc = "errSub"
    /\ LET r == endSpanOpt(spans, ctx, sub[s].subSpan, "error", "message")
       IN  /\ spans' = r.spans
           /\ ctx' = r.ctx
    /\ sub' = [sub EXCEPT ![s].pc = "rejected"]
    /\ UNCHANGED <<agent, loop, traces, ret, processes>>

\* SubAgentRunner.stop(), up to `await this.currentQuery.interrupt()`
SubStopCall(s) ==
    /\ sub[s].spawnPc \in {"ending", "done"}
    /\ sub[s].stopPc = "idle"
    /\ sub[s].stops < MaxSubStops
    /\ sub' = [sub EXCEPT ![s] = SubStopEnter([@ EXCEPT !.stops = @ + 1])]
    /\ UNCHANGED <<agent, loop, traces, spans, ctx, ret, processes>>

\* stop(), after the interrupt: currentQuery = undefined, then the status
SubStopDone(s) ==
    /\ sub[s].stopPc = "interrupting"
    /\ sub' = [sub EXCEPT ![s] = SubStopTail([@ EXCEPT !.currentQuery = FALSE])]
    /\ UNCHANGED <<agent, loop, traces, spans, ctx, ret, processes>>

\* readSubAgentReport(subAgentId): what it returns or throws
readSubAgentReport(a, id) ==
    IF id \notin agent[a].subAgents THEN "NotFound"
    ELSE IF sub[id].file = "none" THEN "ReportUnavailable"
    ELSE sub[id].file

\* ids the model may hand to readSubAgentReport: a sub-agent's, or one never issued
ReadIds == SubIds \cup {"s0"}

\* readSubAgentReport without the existsSync test: readFile throws ENOENT
ReadReportNoExists(a, id) ==
    /\ InFlight(loop[a])
    /\ ret' = Ret(a, "readSubAgentReport",
                  IF id \notin agent[a].subAgents THEN "NotFound"
                  ELSE IF sub[id].file = "none" THEN "ENOENT"
                  ELSE sub[id].file)
    /\ UNCHANGED <<agent, loop, sub, traces, spans, ctx, processes>>

\* readSubAgentReport(subAgentId), a tool callback the engine calls while the
\* agent's query is in flight
ReadReport(a, id) ==
    /\ InFlight(loop[a])
    /\ ret' = Ret(a, "readSubAgentReport", readSubAgentReport(a, id))
    /\ UNCHANGED <<agent, loop, sub, traces, spans, ctx, processes>>

\* A sub-agent's life seen alone: the agent "a1" has started, its first cycle
\* has its query in flight, and the engine calls the spawnSubAgent tool.
SubInit ==
    /\ agent = [a \in AgentIds |->
                  IF a = "a1"
                  THEN [NewAgent EXCEPT !.status = "running", !.cycleCount = 1,
                                        !.currentQuery = 1, !.cycleLoopPromise = 1,
                                        !.traceId = 1, !.starts = 1]
                  ELSE NewAgent]
    /\ loop = [a \in AgentIds |->
                  IF a = "a1"
                  THEN <<[NewLoop EXCEPT !.pc = "stream", !.q = "open",
                                         !.cycleSpan = 1, !.llmSpan = 2]>>
                  ELSE <<>>]
    /\ sub = [s \in SubIds |-> NewSub]
    /\ traces = createTrace(<<>>, "a1").traces
    /\ spans = startSpan(traces,
                         startSpan(traces, <<>>, [traceId |-> 1, spanId |-> None],
                                   "cycle", 1, None).spans,
                         [traceId |-> 1, spanId |-> 1], "llm", 1, 1).spans
    /\ ctx = [traceId |-> 1, spanId |-> 2]
    /\ ret = Ret("a1", "start", "ok")
    /\ processes = [p \in ProcIds |-> NewProcess]

SubNext ==
    \/ SpawnCall("a1", "s1")
    \/ SpawnRegister("a1", "s1")
    \/ SpawnEnd("a1", "s1")
    \/ SubStartSpan("s1")
    \/ SubLlmSpan("s1")
    \/ \E m \in SubMsgTypes : SubStreamMsg("s1", m)
    \/ SubCeiling("s1")
    \/ SubToolSpan("s1")
    \/ SubSaveSpan("s1")
    \/ SubSaveEnd("s1")
    \/ SaveReportTool("s1")
    \/ \E id \in ReadIds : ReadReport("a1", id)
    \/ SubResultEndTool("s1")
    \/ SubResultOk("s1")
    \/ SubResultErr("s1")
    \/ SubStreamEnd("s1")
    \/ SubStreamThrow("s1")
    \/ SubEndLlm("s1")
    \/ SubEndSub("s1")
    \/ SubEndSubOuter("s1")
    \/ SubErrLlm("s1")
    \/ SubErrSub("s1")
    \/ SubStopCall("s1")
    \/ SubStopDone("s1")

SubSpec == SubInit /\ [][SubNext]_vars

\* ------------------------------------------------ an agent and its sub-agent
\* One agent runs its cycles and the engine calls spawnSubAgent during a query,
\* while the agent is paused and resumed (FamilySpec) or stopped (ShutdownSpec).
\* Both engines only answer with a successful result.
FamilyCycle(a) ==
    \/ StartCall(a)
    \/ StartCreated(a)
    \/ \E i \in DOMAIN loop[a] : LoopTop(a, i)
    \/ \E i \in DOMAIN loop[a] : LoopCycleSpan(a, i)
    \/ \E i \in DOMAIN loop[a] : LoopLlmSpan(a, i)
    \/ \E i \in DOMAIN loop[a] : StreamMsg(a, i, "result_success")
    \/ \E i \in DOMAIN loop[a] : StreamEnd(a, i)
    \/ \E i \in DOMAIN loop[a] : LoopResultOk(a, i)
    \/ \E i \in DOMAIN loop[a] : LoopEndLlm(a, i)
    \/ \E i \in DOMAIN loop[a] : LoopEndCycle(a, i)
    \/ \E i \in DOMAIN loop[a] : LoopDelayFires(a, i)

FamilyPause(a) ==
    \/ PauseCall(a)
    \/ ResumeCall(a)
    \/ PauseDone(a)
    \/ \E i \in DOMAIN loop[a] : LoopPauseWait(a, i)
    \/ \E i \in DOMAIN loop[a] : LoopBreak(a, i)
    \/ \E i \in DOMAIN loop[a] : LoopContinue(a, i)

FamilyStop(a) ==
    \/ StopCall(a)
    \/ StopInterrupted(a)
    \/ StopSubStopped(a)
    \/ StopLoopDone(a)
    \/ StopEndTrace(a)
    \/ \E i \in DOMAIN loop[a] : LoopBreak(a, i)
    \/ \E s \in SubIds : SubStopDone(s)

FamilySub(a, s) ==
    \/ SpawnCall(a, s)
    \/ SpawnRegister(a, s)
    \/ SpawnEnd(a, s)
    \/ SubStartSpan(s)
    \/ SubLlmSpan(s)
    \/ SubStreamMsg(s, "result_success")
    \/ SubResultOk(s)
    \/ SubStreamEnd(s)
    \/ SubEndLlm(s)
    \/ SubEndSub(s)
    \/ SubEndSubOuter(s)

FamilyNext == FamilyCycle("a1") \/ FamilyPause("a1") \/ FamilySub("a1", "s1")

FamilySpec == Init /\ [][FamilyNext]_vars

ShutdownNext == FamilyCycle("a1") \/ FamilyStop("a1") \/ FamilySub("a1", "s1")

ShutdownSpec == Init /\ [][ShutdownNext]_vars

\* ------------------------------------------- an agent and a failing sub-agent
\* the steps of SubAgentRunner.run() and of the engine that serves it, with
\* every way the run can fail: an error result, a thrown stream, the ceiling
SubRunStep(s) ==
    \/ SubStartSpan(s)
    \/ SubLlmSpan(s)
    \/ \E m \in {"other", "result_success", "result_error"} : SubStreamMsg(s, m)
    \/ SubCeiling(s)
    \/ SubResultOk(s)
    \/ SubResultErr(s)
    \/ SubStreamEnd(s)
    \/ SubStreamThrow(s)
    \/ SubEndLlm(s)
    \/ SubEndSub(s)
    \/ SubEndSubOuter(s)
    \/ SubErrLlm(s)
    \/ SubErrSub(s)

FailNext ==
    \/ FamilyCycle("a1")
    \/ SpawnCall("a1", "s1")
    \/ SpawnRegister("a1", "s1")
    \/ SpawnEnd("a1", "s1")
    \/ SubRunStep("s1")

FailSpec == Init /\ [][FailNext]_vars

\* ------------------------------------------------------- long-term memory
\* the texts that are saved and searched for
Texts == {"decks", "prices"}

\* searchLongTermMemory: threshold: 0.7, in percent
MatchThreshold == 70

\* 1 - (embedding <=> query_embedding), in percent, of the embeddings that
\* generateEmbedding gives two texts: the same text is at distance 0
similarity(query, content) == IF query = content THEN 100 ELSE 40

RowsAbove(rows, query, threshold) ==
    SelectSeq(rows, LAMBDA content : similarity(query, content) > threshold)

\* match_long_term_memories(query_embedding, match_threshold, match_count, agent id)
match_long_term_memories(rows, query, threshold, count) ==
    LET m == RowsAbove(rows, query, threshold)
        n == IF count < 20 THEN count ELSE 20
    IN  SubSeq(m, 1, IF Len(m) < n THEN Len(m) ELSE n)

\* longTermMemoryDb.search: the rows the rpc returns, [] when it reports an error
longTermMemoryDb_search(rows, query, threshold, limit, storeOk) ==
    IF storeOk THEN match_long_term_memories(rows, query, threshold, limit) ELSE <<>>

\* a list of results as text
RECURSIVE join(_)
join(list) == IF list = <<>> THEN "" ELSE Head(list) \o ";" \o join(Tail(list))

listText(list) == "[" \o join(list) \o "]"

\* what a callback throws
CallbackErrors ==
    {"NotFound", "ReportUnavailable", "MkdirFailed", "EmbeddingFailed", "StoreFailed",
     "WriteFailed"}

\* searchLongTermMemory(query, limit): generateEmbedding may throw, which the
\* catch rethrows; the results of longTermMemoryDb.search are mapped
searchLongTermMemory(rows, query, limit, embedOk, storeOk) ==
    IF ~embedOk
    THEN "EmbeddingFailed"
    ELSE listText(longTermMemoryDb_search(rows, query, MatchThreshold, limit, storeOk))

\* saveLongTermMemory(title, content): generateEmbedding may throw;
\* longTermMemoryDb.create returns null on an error and the callback throws
saveLongTermMemory(embedOk, storeOk) ==
    IF ~embedOk THEN "EmbeddingFailed"
    ELSE IF ~storeOk THEN "StoreFailed"
    ELSE "saved"

\* the engine calls saveLongTermMemory while the agent's query is in flight
SaveMemory(a, content, embedOk, storeOk) ==
    LET out == saveLongTermMemory(embedOk, storeOk) IN
    /\ InFlight(loop[a])
    /\ out = "saved" => Len(agent[a].memories) < MaxRows
    /\ agent' = [agent EXCEPT ![a].memories = IF out = "saved" THEN Append(@, content) ELSE @]
    /\ ret' = Ret(a, "saveLongTermMemory", out)
    /\ UNCHANGED <<loop, sub, traces, spans, ctx, processes>>

\* the engine calls searchLongTermMemory while the agent's query is in flight
SearchMemory(a, query, limit, embedOk, storeOk) ==
    /\ InFlight(loop[a])
    /\ ret' = Ret(a, "searchLongTermMemory",
                  searchLongTermMemory(agent[a].memories, query, limit, embedOk, storeOk))
    /\ UNCHANGED <<agent, loop, sub, traces, spans, ctx, processes>>

MemNext ==
    \/ FamilyCycle("a1")
    \/ \E content \in Texts, embedOk \in BOOLEAN, storeOk \in BOOLEAN :
          SaveMemory("a1", content, embedOk, storeOk)
    \/ \E query \in Texts, limit \in {1, 5}, embedOk \in BOOLEAN, storeOk \in BOOLEAN :
          SearchMemory("a1", query, limit, embedOk, storeOk)

MemSpec == Init /\ [][MemNext]_vars

\* --------------------------------------------- the tool bridge (prompts.ts)
\* a tool handler with its try/catch removed: what the callback throws goes on
toolReplyRethrows(out) == IF out \in CallbackErrors THEN "Throw" ELSE out

\* a tool handler of createOrchestratorMcpServer: `try { ... await callback(...);
\* return {content: [{type: 'text', text: ...}]} } catch (error) { return
\* {content: [{type: 'text', text: `Error ...: ${error.message}`}]} }`
toolReply(out) == IF out \in CallbackErrors THEN "Error: " \o out ELSE out

\* the readSubAgentReport tool
BridgeRead(a, id) ==
    /\ InFlight(loop[a])
    /\ ret' = Ret(a, "readSubAgentReport", toolReply(readSubAgentReport(a, id)))
    /\ UNCHANGED <<agent, loop, sub, traces, spans, ctx, processes>>

\* the listSubAgents tool: the total and the list
BridgeList(a) ==
    /\ InFlight(loop[a])
    /\ ret' = Ret(a, "listSubAgents",
                  toolReply("Total: " \o ToString(Cardinality(agent[a].subAgents))))
    /\ UNCHANGED <<agent, loop, sub, traces, spans, ctx, processes>>

\* the saveLongTermMemory tool
BridgeSaveMemory(a, content, embedOk, storeOk) ==
    LET out == saveLongTermMemory(embedOk, storeOk) IN
    /\ InFlight(loop[a])
    /\ out = "saved" => Len(agent[a].memories) < MaxRows
    /\ agent' = [agent EXCEPT ![a].memories = IF out = "saved" THEN Append(@, content) ELSE @]
    /\ ret' = Ret(a, "saveLongTermMemory", toolReply(out))
    /\ UNCHANGED <<loop, sub, traces, spans, ctx, processes>>

\* the searchLongTermMemory tool
BridgeSearchMemory(a, query, limit, embedOk, storeOk) ==
    /\ InFlight(loop[a])
    /\ ret' = Ret(a, "searchLongTermMemory",
                  toolReply(searchLongTermMemory(agent[a].memories, query, limit,
                                                 embedOk, storeOk)))
    /\ UNCHANGED <<agent, loop, sub, traces, spans, ctx, processes>>

\* the saveResults tool: mkdir and writeFile inside the handler's own try
BridgeSaveResults(a, content, written) ==
    /\ InFlight(loop[a])
    /\ agent' = [agent EXCEPT ![a].results =
                    IF written THEN "# Research Results ... " \o content ELSE @]
    /\ ret' = Ret(a, "saveResults", toolReply(IF written THEN "saved" ELSE "WriteFailed"))
    /\ UNCHANGED <<loop, sub, traces, spans, ctx, processes>>

\* spawnSubAgent, after startSpan: mkdir of the reports directory throws, and
\* the catch awaits endSpan(spanId, 'error')
SpawnMkdirFails(a, s) ==
    /\ sub[s].spawnPc = "starting"
    /\ LET r == startSpan(traces, spans, ctx, "sub_agent", agent[a].traceId,
                          sub[s].spawnParent)
       IN  /\ spans' = r.spans
           /\ ctx' = r.ctx
           /\ sub' = [sub EXCEPT ![s].spawnPc = "failing", ![s].spawnSpan = r.id]
    /\ UNCHANGED <<agent, loop, traces, ret, processes>>

\* spawnSubAgent rethrows and the spawnSubAgent tool answers
SpawnFailed(a, s) ==
    /\ sub[s].spawnPc = "failing"
    /\ LET r == endSpanOpt(spans, ctx, sub[s].spawnSpan, "error", "message")
       IN  /\ spans' = r.spans
           /\ ctx' = r.ctx
    /\ sub' = [sub EXCEPT ![s].spawnPc = "failed"]
    /\ ret' = Ret(a, "spawnSubAgent", toolReply("MkdirFailed"))
    /\ UNCHANGED <<agent, loop, traces, processes>>

\* a tool of the bridge answers the engine
BridgeStep(a) ==
    \/ \E id \in ReadIds : BridgeRead(a, id)
    \/ BridgeList(a)
    \/ \E content \in Texts, embedOk \in BOOLEAN, storeOk \in BOOLEAN :
          BridgeSaveMemory(a, content, embedOk, storeOk)
    \/ \E query \in Texts, limit \in {1, 5}, embedOk \in BOOLEAN, storeOk \in BOOLEAN :
          BridgeSearchMemory(a, query, limit, embedOk, storeOk)
    \/ \E content \in Texts, written \in BOOLEAN : BridgeSaveResults(a, content, written)
    \/ \E s \in SubIds : SpawnFailed(a, s)

BridgeNext ==
    \/ FamilyCycle("a1")
    \/ BridgeStep("a1")
    \/ SpawnCall("a1", "s1")
    \/ SpawnRegister("a1", "s1")
    \/ SpawnEnd("a1", "s1")
    \/ SpawnMkdirFails("a1", "s1")

BridgeSpec == Init /\ [][BridgeNext]_vars

\* ------------------------------------------------- several agents, one context
\* Two agents of one OrchestratorManager run their cycles side by side; the
\* callers only start them and every query answers with its result at once.
\* The tracing module's active context is shared.
TraceStep(a) ==
    \/ StartCall(a)
    \/ StartCreated(a)
    \/ \E i \in DOMAIN loop[a] : LoopTop(a, i)
    \/ \E i \in DOMAIN loop[a] : LoopCycleSpan(a, i)
    \/ \E i \in DOMAIN loop[a] : LoopLlmSpan(a, i)
    \/ \E i \in DOMAIN loop[a] : StreamMsg(a, i, "result_success")
    \/ \E i \in DOMAIN loop[a] : StreamEnd(a, i)
    \/ \E i \in DOMAIN loop[a] : LoopResultOk(a, i)
    \/ \E i \in DOMAIN loop[a] : LoopEndLlm(a, i)
    \/ \E i \in DOMAIN loop[a] : LoopEndCycle(a, i)
    \/ \E i \in DOMAIN loop[a] : LoopDelayFires(a, i)

TraceNext == TraceStep("a1") \/ TraceStep("a2")

TraceSpec == Init /\ [][TraceNext]_vars

\* ------------------------------------------------- the tracing module, called directly
SpanTypes == {"custom"}
EndStatuses == {"completed", "error"}

\* createTrace(agentId, name)
ApiCreateTrace(a) ==
    /\ Len(traces) < MaxApiTraces
    /\ LET r == createTrace(traces, a)
       IN  /\ traces' = r.traces
           /\ ctx' = r.ctx
    /\ ret' = Ret("api", "createTrace", "returned")
    /\ UNCHANGED <<agent, loop, sub, spans, processes>>

\* endTrace(traceId, status)
ApiEndTrace(t, st) ==
    /\ t \in DOMAIN traces
    /\ LET r == endTrace(traces, ctx, t, st)
       IN  /\ traces' = r.traces
           /\ ctx' = r.ctx
    /\ ret' = Ret("api", "endTrace", "returned")
    /\ UNCHANGED <<agent, loop, sub, spans, processes>>

\* startSpan(name, spanType, {traceId, parentSpanId})
ApiStartSpan(type, optTrace, optParent) ==
    /\ Len(spans) < MaxApiSpans
    /\ LET r == startSpan(traces, spans, ctx, type, optTrace, optParent)
       IN  /\ spans' = r.spans
           /\ ctx' = r.ctx
           /\ ret' = Ret("api", "startSpan", IF r.id = None THEN "empty" ELSE "created")
    /\ UNCHANGED <<agent, loop, sub, traces, processes>>

\* the span id names no row of the span store ('' included)
UnknownSpan(id) == id = None \/ id \notin DOMAIN spans

\* endSpan(spanId, status)
ApiEndSpan(id, st) ==
    /\ id \in DOMAIN spans => spans[id].ends < MaxEnds
    /\ LET r == endSpan(spans, ctx, id, st)
       IN  /\ spans' = r.spans
           /\ ctx' = r.ctx
           /\ ret' = Ret("api", "endSpan",
                         IF r.raised THEN "raised"
                         ELSE IF UnknownSpan(id) THEN "skipped" ELSE "ended")
    /\ UNCHANGED <<agent, loop, sub, traces, processes>>

\* setTraceContext(context)
ApiSetTraceContext(c) ==
    /\ ctx' = c
    /\ ret' = Ret("api", "setTraceContext", "returned")
    /\ UNCHANGED <<agent, loop, sub, traces, spans, processes>>

ApiNext ==
    \/ ApiCreateTrace("a1")
    \/ \E t \in 1..MaxApiTraces : \E st \in EndStatuses : ApiEndTrace(t, st)
    \/ \E type \in SpanTypes : \E t \in 0..MaxApiTraces : \E p \in 0..MaxApiSpans :
          ApiStartSpan(type, t, p)
    \/ \E id \in 0..(MaxApiSpans + 1) : \E st \in EndStatuses : ApiEndSpan(id, st)
    \/ \E t \in 0..MaxApiTraces : \E p \in 0..MaxApiSpans :
          ApiSetTraceContext(IF t = None THEN NullCtx ELSE [traceId |-> t, spanId |-> p])

ApiSpec == Init /\ [][ApiNext]_vars

\* ------------------------------------------------------------------ withSpan
\* withSpan(name, type, fn, options), up to the call of fn(spanId)
WithSpanStart(type, optTrace, optParent) ==
    /\ ~(ret.op = "withSpan" /\ ret.res = "running")
    /\ Len(spans) < MaxApiSpans
    /\ LET r == startSpan(traces, spans, ctx, type, optTrace, optParent)
       IN  /\ spans' = r.spans
           /\ ctx' = r.ctx
           /\ ret' = [Ret("api", "withSpan", "running") EXCEPT !.span = r.id]
    /\ UNCHANGED <<agent, loop, sub, traces, processes>>

\* fn throws and the catch block only re-throws
WithSpanThrowsNoEnd ==
    /\ ret.op = "withSpan" /\ ret.res = "running"
    /\ ret' = [ret EXCEPT !.res = "rethrown"]
    /\ UNCHANGED <<agent, loop, sub, traces, spans, ctx, processes>>

\* fn returns: endSpan(spanId, 'completed', {output}), return result
WithSpanReturns ==
    /\ ret.op = "withSpan" /\ ret.res = "running"
    /\ LET r == endSpan(spans, ctx, ret.span, "completed")
       IN  /\ spans' = r.spans
           /\ ctx' = r.ctx
    /\ ret' = [ret EXCEPT !.res = "returned"]
    /\ UNCHANGED <<agent, loop, sub, traces, processes>>

\* fn throws: endSpan(spanId, 'error', {error: errorMessage}), throw error
WithSpanThrows ==
    /\ ret.op = "withSpan" /\ ret.res = "running"
    /\ LET r == endSpanOpt(spans, ctx, ret.span, "error", "message")
       IN  /\ spans' = r.spans
           /\ ctx' = r.ctx
    /\ ret' = [ret EXCEPT !.res = "rethrown"]
    /\ UNCHANGED <<agent, loop, sub, traces, processes>>

\* what fn, or anyone else, does to the span store while fn runs: endSpan on
\* the rows there are
WithSpanBodyEnds(id, st) ==
    /\ ret.op = "withSpan" /\ ret.res = "running"
    /\ id \in DOMAIN spans /\ spans[id].ends < MaxEnds
    /\ LET r == endSpan(spans, ctx, id, st)
       IN  /\ spans' = r.spans
           /\ ctx' = r.ctx
    /\ UNCHANGED <<agent, loop, sub, traces, ret, processes>>

WithSpanNext ==
    \/ ApiCreateTrace("a1")
    \/ \E type \in SpanTypes : \E t \in 0..MaxApiTraces : \E p \in 0..MaxApiSpans :
          WithSpanStart(type, t, p)
    \/ WithSpanReturns
    \/ WithSpanThrows
    \/ \E id \in 1..MaxApiSpans : \E st \in EndStatuses : WithSpanBodyEnds(id, st)

WithSpanSpec == Init /\ [][WithSpanNext]_vars

\* ------------------------------------------------------------ ProcessManager
ProcMsgTypes == {"assistant", "result_success", "result_error"}
TerminalStatuses == {"completed", "error", "cancelled"}

\* startProcess(prompt): the ProcessInfo is put in the map with status pending
\* and executeQuery() runs up to the first await of its `for await`: status
\* running, process.query set
StartProcess(p) ==
    /\ processes[p].status = "none"
    /\ processes' = [processes EXCEPT ![p] =
                        [NewProcess EXCEPT !.status = "running", !.query = TRUE, !.pc = "stream"]]
    /\ ret' = Ret(p, "startProcess", "id")
    /\ UNCHANGED <<agent, loop, sub, traces, spans, ctx>>

\* executeQuery: the stream delivers a message; a result message sets the
\* status (completed on success, error otherwise), completedAt, and clears
\* process.query; the `for await` goes on. The engine sends one result
\* message, and nothing but the end of the stream after it.
ExecuteQueryMessage(p, type) ==
    /\ processes[p].pc = "stream"
    /\ processes[p].msgs < MaxProcMsgs
    /\ ~processes[p].resultSent
    /\ processes' = [processes EXCEPT ![p] =
          IF type = "result_success"
          THEN [@ EXCEPT !.status = "completed", !.completedAt = TRUE, !.query = FALSE,
                         !.msgs = @ + 1, !.resultSent = TRUE]
          ELSE IF type = "result_error"
          THEN [@ EXCEPT !.status = "error", !.completedAt = TRUE, !.query = FALSE,
                         !.msgs = @ + 1, !.resultSent = TRUE]
          ELSE [@ EXCEPT !.msgs = @ + 1]]
    /\ UNCHANGED <<agent, loop, sub, traces, spans, ctx, ret>>

\* executeQuery: the stream is exhausted and the function returns
ExecuteQueryEnds(p) ==
    /\ processes[p].pc = "stream"
    /\ processes' = [processes EXCEPT ![p].pc = "done"]
    /\ UNCHANGED <<agent, loop, sub, traces, spans, ctx, ret>>

\* executeQuery: the stream throws before any result message, the catch block
\* records the error
ExecuteQueryThrows(p) ==
    /\ processes[p].pc = "stream"
    /\ ~processes[p].resultSent
    /\ processes' = [processes EXCEPT ![p].status = "error", ![p].completedAt = TRUE,
                                      ![p].query = FALSE, ![p].pc = "done"]
    /\ UNCHANGED <<agent, loop, sub, traces, spans, ctx, ret>>

\* cancelProcess(id), up to `await process.query.interrupt()`; false for an
\* unknown id or a process with no query
CancelProcess(p) ==
    /\ processes[p].cancelPc = "idle"
    /\ IF processes[p].status = "none" \/ ~processes[p].query
       THEN /\ ret' = Ret(p, "cancelProcess", "false")
            /\ UNCHANGED processes
       ELSE /\ processes' = [processes EXCEPT ![p].cancelPc = "interrupting",
                                              ![p].qIntr = TRUE]
            /\ ret' = Ret(p, "cancelProcess", "pending")
    /\ UNCHANGED <<agent, loop, sub, traces, spans, ctx>>

\* cancelProcess after the await: status cancelled and true, or, interrupt()
\* having thrown, status error and false
CancelProcessDone(p, ok) ==
    /\ processes[p].cancelPc = "interrupting"
    /\ IF ok
       THEN /\ processes' = [processes EXCEPT ![p].status = "cancelled",
                                              ![p].completedAt = TRUE,
                                              ![p].query = FALSE, ![p].cancelPc = "idle"]
            /\ ret' = Ret(p, "cancelProcess", "true")
       ELSE /\ processes' = [processes EXCEPT ![p].status = "error",
                                              ![p].completedAt = TRUE, ![p].cancelPc = "idle"]
            /\ ret' = Ret(p, "cancelProcess", "false")
    /\ UNCHANGED <<agent, loop, sub, traces, spans, ctx>>

ProcNext ==
    \/ \E p \in ProcIds : StartProcess(p)
    \/ \E p \in ProcIds, type \in ProcMsgTypes : ExecuteQueryMessage(p, type)
    \/ \E p \in ProcIds : ExecuteQueryEnds(p)
    \/ \E p \in ProcIds : ExecuteQueryThrows(p)
    \/ \E p \in ProcIds : CancelProcess(p)
    \/ \E p \in ProcIds, ok \in BOOLEAN : CancelProcessDone(p, ok)

ProcSpec == Init /\ [][ProcNext]_vars

\* ------------------------------------------------------------------ claims
AllowedEdges ==
    {<<"stopped", "running">>, <<"running", "paused">>, <<"running", "sleeping">>,
     <<"paused", "running">>, <<"sleeping", "running">>}

\* C1: every change of an agent's status is one of the edges stopped->running,
\* running->paused, running->sleeping, paused->running, sleeping->running or
\* any->stopped.
C1_OnlyListedEdges ==
    [][\A a \in AgentIds :
         agent'[a].status # agent[a].status =>
            \/ agent'[a].status = "stopped"
            \/ <<agent[a].status, agent'[a].status>> \in AllowedEdges]_vars

Crashed(a) == \E i \in DOMAIN loop[a] : loop[a][i].pc \in {"errLlm", "errCycle", "crashed"}

\* C2: once stop() is invoked on an agent that is not stopped, the cycle loop
\* terminates, stop() returns and the status is stopped (a loop that died of
\* an engine error, or a pause() made after the stop(), apart).
C2_StopTerminates ==
    \A a \in {"a1"} :
       (agent[a].stopPc # "idle")
          ~> \/ Crashed(a) \/ agent[a].isPaused
             \/ (agent[a].stopPc = "idle" /\ agent[a].status = "stopped")

\* C3: after pause() then resume(), with no stop() and no second pause(), the
\* agent begins a fresh cycle: cycleCount increases.
C3_ResumeStartsFreshCycle ==
    \A a \in {"a1"} : \A n \in 0..(MaxCycles - 1) :
       (ret = Ret(a, "resume", "ok") /\ agent[a].cycleCount = n /\ loop[a] # <<>>)
          ~> \/ agent[a].cycleCount > n
             \/ agent[a].shouldStop \/ agent[a].isPaused \/ Crashed(a)

\* C4: start() on an agent that is not stopped fails with the already-running
\* error and changes nothing of the agent, its loops, or the traces.
C4_StartOnRunningFails ==
    [][\A a \in AgentIds :
         (/\ ret' # ret /\ ret'.who = a /\ ret'.op = "start"
          /\ ret'.res \in {"pending", "AlreadyRunning"}
          /\ agent[a].status # "stopped")
         => (/\ ret'.res = "AlreadyRunning"
             /\ UNCHANGED <<agent, loop, sub, traces, spans, ctx>>)]_vars

C4_Witness ==
    /\ ret = Ret("a1", "start", "AlreadyRunning")
    /\ agent["a1"].status = "paused"
    /\ \E i \in DOMAIN loop["a1"] : loop["a1"][i].pc = "cycleWait"

\* C7: when pause() returns and a cycle had a query in flight at the call, an
\* interruption of that query has been requested.
C7_PauseInterruptsInFlight ==
    (ret.op = "pause" /\ ret.res = "ok" /\ ret.hadQuery) => ret.intr

\* C5: a sub-agent's status only moves pending -> researching -> completed or
\* failed; a terminal status never changes.
C5_StatusMonotonic ==
    [][\A s \in SubIds :
         sub'[s].status # sub[s].status =>
            <<sub[s].status, sub'[s].status>> \in
               {<<"pending", "researching">>, <<"researching", "completed">>,
                <<"researching", "failed">>}]_vars

\* C6: a sub-agent processes at most MAX_MESSAGES messages of its query; with
\* the message after those, the query's interruption is requested, no further
\* message is taken, and once the ceiling branch has run the status is failed
\* with the ceiling error.
C6_CeilingHolds ==
    \A s \in SubIds :
       /\ sub[s].processed <= MAX_MESSAGES
       /\ sub[s].messageCount <= MAX_MESSAGES + 1
       /\ sub[s].messageCount > MAX_MESSAGES =>
             /\ sub[s].qIntr
             /\ sub[s].pc # "ceilingInterrupt" =>
                   /\ sub[s].status = "failed"
                   /\ sub[s].error = "ceiling"
                   /\ sub[s].q = "closed"

C6_Witness ==
    /\ sub["s1"].messageCount = MAX_MESSAGES + 1
    /\ sub["s1"].processed = MAX_MESSAGES
    /\ sub["s1"].status = "failed" /\ sub["s1"].error = "ceiling"
    /\ sub["s1"].pc = "done"

\* C9: no span is ended more than once (ends counts the updates endSpan wrote
\* to the span's row).
C9_EndedOnce ==
    \A k \in DOMAIN spans : spans[k].ends <= 1

\* C8: every span with a parent names a span created before it that belongs
\* to the same trace.
C8_ParentInSameTrace ==
    \A k \in DOMAIN spans :
       spans[k].parent # None =>
          /\ spans[k].parent < k
          /\ spans[spans[k].parent].traceId = spans[k].traceId

\* C10: endSpan called with '' or with an id that names no span returns
\* normally and leaves the span store, the traces and the active context as
\* they were.
C10_EndSpanUnknownIsNoop ==
    [][\A id \in 0..(MaxApiSpans + 1) : \A st \in EndStatuses :
         (UnknownSpan(id) /\ ApiEndSpan(id, st)) =>
            (ret'.res = "skipped" /\ UNCHANGED <<spans, ctx, traces>>)]_vars

C10_Witness ==
    /\ ret = Ret("api", "endSpan", "skipped")
    /\ spans # <<>>
    /\ ctx.spanId # None

\* C11: removeAgent with an id the registry does not hold returns false and
\* changes nothing: not the registry, not an agent, not a sub-agent, not a trace.
C11_RemoveUnknownIsNoop ==
    [][\A id \in AgentIds :
         (~agent[id].registered /\ RemoveCall(id)) =>
            (ret'.res = "false" /\ UNCHANGED <<agent, loop, sub, traces, spans, ctx>>)]_vars

C11_Witness ==
    /\ ret = Ret("a2", "removeAgent", "false")
    /\ agent["a1"].registered /\ agent["a1"].status = "sleeping"

\* C12: removeAgent on a registered agent eventually completes with the agent
\* stopped and out of the registry.
C12_RemoveCompletes ==
    \A a \in {"a1"} :
       agent[a].removing ~> (~agent[a].registered /\ agent[a].status = "stopped")

\* C13: for every agent at most one cycle is executing at any time, under any
\* interleaving of start(), pause(), resume() and stop() calls: no two
\* cycleLoop() invocations of one agent are inside runCycle() together.
C13_OneCycleAtATime ==
    \A a \in AgentIds :
        Cardinality({i \in DOMAIN loop[a] : InCycle(loop[a][i])}) <= 1

\* C15: readSubAgentReport(id) fails with not-found when the agent's registry
\* does not hold id, fails with report-unavailable when the sub-agent is
\* registered and its report file does not exist, and otherwise returns exactly
\* the file's contents; it changes nothing of the agent or its sub-agents.
C15_ReadReport ==
    [][\A id \in ReadIds :
         ReadReport("a1", id) =>
             /\ UNCHANGED <<agent, loop, sub, traces, spans, ctx>>
             /\ id \notin agent["a1"].subAgents => ret'.res = "NotFound"
             /\ (id \in agent["a1"].subAgents /\ sub[id].file = "none")
                    => ret'.res = "ReportUnavailable"
             /\ (id \in agent["a1"].subAgents /\ sub[id].file # "none")
                    => ret'.res = sub[id].file]_vars

\* a registered sub-agent's report was read; an unknown id was refused before
C15_Witness ==
    /\ ret.op = "readSubAgentReport"
    /\ "s1" \in agent["a1"].subAgents
    /\ sub["s1"].file # "none"
    /\ ret.res = sub["s1"].file

\* C18: a sub-agent's status is completed only when its save-report action was
\* observed and accepted: completedAt is set and the report file exists with
\* header and content.
C18_CompletedHasReport ==
    \A s \in SubIds :
        sub[s].status = "completed" =>
            /\ sub[s].completedAt
            /\ \E content \in ReportContents : sub[s].file = reportContent(content)

\* a step of runCycle or cycleLoop that waits for nothing but its own await
\* (the bound on the cycles aside)
LoopRunnable(a, l) ==
    \/ l.pc \in {"startCycleSpan", "startLlmSpan", "resultOk", "endLlm", "endCycle",
                 "pauseInterrupt", "cycleResumed", "loopResumed"}
    \/ l.pc = "top" /\ agent[a].cycleCount < MaxCycles

\* C14: spawnSubAgent registers the new sub-agent, so that listSubAgents shows
\* it, and returns without waiting for the sub-agent's run: once the runner is
\* registered the call's last step is enabled whatever the runner's status,
\* and while a sub-agent is researching every step of the parent's cycle and
\* cycle loop stays enabled.
C14_SpawnDoesNotWait ==
    \A s \in SubIds :
        /\ sub[s].spawnPc \in {"ending", "done"} => s \in agent["a1"].subAgents
        /\ sub[s].spawnPc = "ending" => ENABLED SpawnEnd("a1", s)
        /\ sub[s].status = "researching" =>
               \A i \in DOMAIN loop["a1"] :
                   LoopRunnable("a1", loop["a1"][i]) => ENABLED LoopContinuation("a1")

\* spawnSubAgent was called in the first cycle and has returned, the sub-agent
\* is still researching, and the parent's second cycle has its query in flight
C14_Witness ==
    /\ sub["s1"].spawnPc = "done" /\ sub["s1"].spawnSpan = 3
    /\ sub["s1"].status = "researching"
    /\ "s1" \in agent["a1"].subAgents
    /\ agent["a1"].cycleCount = 2
    /\ loop["a1"][1].pc = "stream" /\ loop["a1"][1].llmSpan > sub["s1"].spawnSpan

\* C17: pause() interrupts only the agent's own query: neither its first part
\* nor its continuation changes the sub-agent registry, any sub-agent's status
\* or any sub-agent's query.
C17_PauseLeavesSubAgents ==
    [][(PauseCall("a1") \/ PauseDone("a1")) =>
          /\ sub' = sub
          /\ agent'["a1"].subAgents = agent["a1"].subAgents]_vars

\* pause() interrupted the parent's query and returned; the sub-agent is
\* registered and researching, and its query is open and not interrupted
C17_Witness ==
    /\ ret.op = "pause" /\ ret.res = "ok" /\ ret.hadQuery /\ ret.intr
    /\ agent["a1"].isPaused
    /\ "s1" \in agent["a1"].subAgents
    /\ sub["s1"].status = "researching"
    /\ sub["s1"].q = "open" /\ ~sub["s1"].qIntr

\* stop() was called and has returned
StopReturned(a) ==
    agent[a].shouldStop /\ agent[a].stopPc = "idle" /\ agent[a].status = "stopped"

\* C16: after stop() returns, no sub-agent the agent owned has an in-flight
\* engine query or starts one later, and none is still researching: here for
\* the sub-agents that were registered when stop() ran, those stop() called
\* SubAgentRunner.stop() on.
C16_StopEndsSubAgents ==
    \A a \in {"a1"} :
        StopReturned(a) =>
            \A s \in agent[a].stopSubs :
                sub[s].q # "open" /\ sub[s].status # "researching"

\* C20: searchLongTermMemory returns an empty list exactly when the store has
\* no row above the similarity threshold, and fails with an error, instead of
\* returning a list, whenever the embedding service or the store fails.
C20_SearchFailsOnFailure ==
    [][\A query \in Texts, limit \in {1, 5}, embedOk \in BOOLEAN, storeOk \in BOOLEAN :
          SearchMemory("a1", query, limit, embedOk, storeOk) =>
              /\ (~embedOk \/ ~storeOk) => ret'.res \in CallbackErrors
              /\ (embedOk /\ storeOk) =>
                    (ret'.res = listText(<<>>)
                        <=> RowsAbove(agent["a1"].memories, query, MatchThreshold) = <<>>)]_vars

\* C19: a tool of the bridge whose callback fails answers the engine with a
\* failure text and never throws; the step changes neither the agent's status
\* nor its cycleCount, and the cycle and the cycle loop are where they were.
C19_BridgeCatches ==
    [][BridgeStep("a1") =>
          /\ ret'.res \notin CallbackErrors \cup {"Throw"}
          /\ agent'["a1"].status = agent["a1"].status
          /\ agent'["a1"].cycleCount = agent["a1"].cycleCount
          /\ loop' = loop]_vars

\* readSubAgentReport failed during the first cycle's query and the tool
\* answered with the failure text; the cycle has ended normally since and the
\* loop waits to begin the next one
C19_Witness ==
    /\ ret.op = "readSubAgentReport" /\ ret.res = "Error: NotFound"
    /\ agent["a1"].status = "running" /\ agent["a1"].cycleCount = 1
    /\ loop["a1"][1].pc = "delay"

\* C21: no step of a sub-agent's run, failing steps included (an error result,
\* an exception thrown from run(), the message ceiling), changes anything of
\* an agent: status, isPaused, shouldStop, cycleCount and the position of the
\* cycle loop stay as they were.
C21_SubFailureStaysLocal ==
    [][SubRunStep("s1") => (agent' = agent /\ loop' = loop)]_vars

\* the run threw and rejected, and the parent went on to its next cycle
C21_Witness ==
    /\ sub["s1"].status = "failed" /\ sub["s1"].error = "exception"
    /\ sub["s1"].pc = "rejected"
    /\ "s1" \in agent["a1"].subAgents
    /\ agent["a1"].status = "running" /\ agent["a1"].cycleCount = 2
    /\ InFlight(loop["a1"])

\* C22: any two distinct agents created by spawn(), whatever the options, have
\* distinct memory file paths, distinct results file paths and distinct
\* sub-agent report directories.
C22_PathsDistinct ==
    \A a, b \in AgentIds :
        (a # b /\ agent[a].registered /\ agent[b].registered) =>
            /\ agent[a].memoryPath # agent[b].memoryPath
            /\ agent[a].resultsPath # agent[b].resultsPath
            /\ reportsBasePath(a, agent[a].resultsPath) # reportsBasePath(b, agent[b].resultsPath)

\* a text holds a piece, or a run of pieces
Contains(text, piece) == \E i \in DOMAIN text : text[i] = piece
ContainsAll(text, pieces) ==
    \E i \in 1..(Len(text) - Len(pieces) + 1) : SubSeq(text, i, i + Len(pieces) - 1) = pieces
WellFormed(text) == ~Contains(text, LoneSurrogate)

WithSpanExits ==
    /\ WithSpanReturns =>
          /\ ret'.res = "returned"
          /\ ret.span # None => (spans'[ret.span].status = "completed" /\ spans'[ret.span].ends > 0)
    /\ WithSpanThrows =>
          /\ ret'.res = "rethrown"
          /\ ret.span # None =>
                /\ spans'[ret.span].status = "error" /\ spans'[ret.span].ends > 0
                /\ spans'[ret.span].error = "message"
    /\ (WithSpanReturns \/ WithSpanThrows) => Len(spans') = Len(spans)

\* C24 as stated: every call of withSpan starts one span, and that span is
\* ended on each exit.
C24_WithSpanAlwaysStartsOne ==
    [][/\ \A type \in SpanTypes, t \in 0..MaxApiTraces, p \in 0..MaxApiSpans :
             WithSpanStart(type, t, p) =>
                 (Len(spans') = Len(spans) + 1 /\ ret'.span = Len(spans'))
       /\ WithSpanExits]_vars

\* C24: withSpan calls startSpan once, which starts one span or, when neither
\* the options nor the active context name a trace or the insert fails, none
\* (its id is then ''); the operation runs in both cases; when it returns,
\* the span (if any) is ended with status completed and the result returned;
\* when it throws, the span (if any) is ended with status error and the error
\* message, and the error is re-thrown.
C24_WithSpanEnds ==
    [][/\ \A type \in SpanTypes, t \in 0..MaxApiTraces, p \in 0..MaxApiSpans :
             WithSpanStart(type, t, p) =>
                 /\ ret'.res = "running"
                 /\ IF ret'.span = None
                    THEN spans' = spans
                    ELSE /\ Len(spans') = Len(spans) + 1 /\ ret'.span = Len(spans')
                         /\ spans'[ret'.span].status = "running"
       /\ WithSpanExits]_vars

\* the operation threw inside a span that withSpan had started
C24_Witness ==
    /\ ret.op = "withSpan" /\ ret.res = "rethrown" /\ ret.span # None
    /\ spans[ret.span].status = "error" /\ spans[ret.span].error = "message"

\* the traces of an agent that are in status running
RunningTraces(a) == {t \in DOMAIN traces : traces[t].agent = a /\ traces[t].status = "running"}

\* C25: an agent never has two traces in status running, and once stop() has
\* returned no trace of the agent is running (endTrace stamps the terminal
\* status and the end time together).
C25_OneTracePerRun ==
    \A a \in {"a1"} :
        /\ Cardinality(RunningTraces(a)) <= 1
        /\ StopReturned(a) => RunningTraces(a) = {}

\* C26: a results file and a report file, once written by their save tool, are
\* never written again: a file that exists keeps its content in every step.
C26_SavedOnce ==
    [][/\ \A a \in AgentIds : agent[a].results # "none" => agent'[a].results = agent[a].results
       /\ \A s \in SubIds : sub[s].file # "none" => sub'[s].file = sub[s].file]_vars

\* C27: the status becomes sleeping only in a cycle during which handleSleep
\* ran, and handleSleep itself only records the deadline: it changes neither
\* the status nor the position of the cycle.
C27_SleepsOnlyIfAsked ==
    [][\A a \in {"a1"} :
          /\ (agent[a].status # "sleeping" /\ agent'[a].status = "sleeping") =>
                 agent[a].sleepCycle = agent[a].cycleCount
          /\ handleSleep(a) =>
                 /\ agent'[a].sleepUntil /\ agent'[a].status = agent[a].status
                 /\ loop' = loop]_vars

\* C28: when run() has finished after the engine's stream completed, the
\* sub-agent is completed if the saveReport tool was seen in the stream and
\* failed otherwise; it is not left researching.
C28_RunEndsTerminal ==
    \A s \in SubIds :
        sub[s].pc = "done" =>
            /\ sub[s].status \in {"completed", "failed"}
            /\ sub[s].status = "completed" => sub[s].reportSaved

\* C29: once an error has escaped a cycle, the cycle loop it ran in is over for
\* good: that loop starts no cycle again and cycleCount is not increased by it,
\* and the spans the failed cycle started (its cycle span, its llm span) are
\* ended with status error. For an agent with one cycle loop: both spans were
\* started and are ended with status error, and cycleCount stays as it is.
C29_ErrorEndsLoop ==
    /\ [](\A i \in DOMAIN loop["a1"] :
            loop["a1"][i].pc = "crashed" =>
                LET sc == loop["a1"][i].cycleSpan
                    sl == loop["a1"][i].llmSpan
                IN  /\ sc # None => (spans[sc].status = "error" /\ spans[sc].ends > 0)
                    /\ sl # None => (spans[sl].status = "error" /\ spans[sl].ends > 0)
                    /\ Len(loop["a1"]) = 1 => (sc # None /\ sl # None))
    /\ [][\A i \in DOMAIN loop["a1"] :
            loop["a1"][i].pc \in {"errLlm", "errCycle", "crashed"} =>
                /\ loop'["a1"][i].pc \in {"errLlm", "errCycle", "crashed"}
                /\ agent'["a1"].cycleCount # agent["a1"].cycleCount =>
                       \E j \in DOMAIN loop["a1"] \ {i} : LoopTop("a1", j)]_vars

\* the second cycle's stream threw after a first cycle that went well, and
\* calls were made on the agent afterwards
C29_Witness ==
    /\ Len(loop["a1"]) = 1 /\ loop["a1"][1].pc = "crashed"
    /\ agent["a1"].cycleCount = 2
    /\ spans[loop["a1"][1].llmSpan].status = "error"
    /\ ret.op = "resume"

\* C30: every tool-use event of a cycle has its span of type tool, in the
\* agent's own trace and under the cycle's llm span, and once the cycle is
\* over (normally, by pause, by stop or by an error) that span is ended.
C30_ToolSpansEnded ==
    \A a \in AgentIds : \A i \in DOMAIN loop[a] :
        \A k \in DOMAIN loop[a][i].toolSpans :
            LET id == loop[a][i].toolSpans[k] IN
            /\ id # None
            /\ spans[id].type = "tool"
            /\ spans[id].parent = loop[a][i].llmSpan
            /\ traces[spans[id].traceId].agent = a
            /\ ~InCycle(loop[a][i]) => spans[id].status # "running"

\* C31: endSpan on the span that is the active context's current span moves
\* the current-span pointer to that span's recorded parent (none: the pointer
\* is cleared) and keeps the context's trace id; endSpan on any other span
\* leaves the active context as it is.
C31_EndSpanRestoresParent ==
    [][\A id \in 0..(MaxApiSpans + 1), st \in EndStatuses :
          ApiEndSpan(id, st) =>
              IF id \in DOMAIN spans /\ ctx.traceId # None /\ ctx.spanId = id
              THEN ctx'.traceId = ctx.traceId /\ ctx'.spanId = spans[id].parent
              ELSE ctx' = ctx]_vars

\* span 2, child of span 1, was the current span and has been ended: the
\* pointer is back on span 1
C31_Witness ==
    /\ ret.op = "endSpan" /\ ret.res = "ended"
    /\ Len(spans) = 2 /\ spans[2].parent = 1 /\ spans[2].ends = 1 /\ spans[1].ends = 0
    /\ ctx.traceId = spans[2].traceId /\ ctx.spanId = 1

\* C32: cycleCount never decreases; it changes only when a cycle begins, by
\* exactly one, and a cycle begins (and counts, and goes on to query the
\* engine) only while the stop flag is not set; each cycle that begins counts.
C32_CycleCountMonotonic ==
    [][\A a \in {"a1"} :
          /\ agent'[a].cycleCount >= agent[a].cycleCount
          /\ agent'[a].cycleCount # agent[a].cycleCount =>
                /\ agent'[a].cycleCount = agent[a].cycleCount + 1
                /\ ~agent[a].shouldStop
                /\ \E i \in DOMAIN loop[a] :
                      loop[a][i].pc = "top" /\ loop'[a][i].pc = "startCycleSpan"
          /\ \A i \in DOMAIN loop[a] :
                (loop[a][i].pc = "top" /\ loop'[a][i].pc = "startCycleSpan") =>
                    agent'[a].cycleCount = agent[a].cycleCount + 1
          /\ \A i \in DOMAIN loop[a] :
                (loop[a][i].pc = "top" /\ agent[a].shouldStop) =>
                    loop'[a][i].pc \in {"top", "done"}]_vars

\* two cycles were counted, then stop() was requested and the loop left
\* without counting again
C32_Witness ==
    /\ agent["a1"].cycleCount = 2 /\ agent["a1"].shouldStop
    /\ Len(loop["a1"]) = 1 /\ loop["a1"][1].pc = "done"
    /\ agent["a1"].status = "stopped"

\* C33: while the pause flag is set and no stop has been requested, the status
\* is paused, and no loop of the agent begins a cycle or enters the sleep wait.
C33_PausedStaysPaused ==
    /\ [](\A a \in {"a1"} :
            (agent[a].isPaused /\ ~agent[a].shouldStop /\ agent[a].status # "stopped")
                => agent[a].status = "paused")
    /\ [][\A a \in {"a1"} :
            (agent[a].isPaused /\ agent'[a].isPaused /\ ~agent[a].shouldStop) =>
                \A i \in DOMAIN loop[a] :
                    /\ ~(loop[a][i].pc = "top" /\ loop'[a][i].pc = "startCycleSpan")
                    /\ ~(loop[a][i].pc # "sleepWait" /\ loop'[a][i].pc = "sleepWait")]_vars

\* the agent has a cycle loop that has neither returned nor thrown
LoopActive(a) == \E i \in DOMAIN loop[a] : loop[a][i].pc \notin {"done", "crashed"}

\* C34: resume() on an agent whose status is stopped leaves it stopped, and
\* the status is running, paused or sleeping only while a cycle loop of the
\* agent is active (or start() is still on its way to launching it).
C34_ResumeKeepsStopped ==
    /\ [][\A a \in {"a1"} :
            (ResumeCall(a) /\ agent[a].status = "stopped") => agent'[a].status = "stopped"]_vars
    /\ [](\A a \in {"a1"} :
            (agent[a].status # "stopped" /\ agent[a].startsPending = 0) => LoopActive(a))

\* C35: when start() fails (the status check refuses it, or createTrace throws
\* after the check has passed) and no other start() of the agent is on its
\* way, the status is stopped at the moment start() rejects with the trace
\* failure, and a failed start() launches no cycle loop.
C35_FailedStartStopped ==
    [][\A a \in {"a1"} :
          (StartCreated(a) /\ ret'.res = "TraceFailed") =>
              /\ loop'[a] = loop[a]
              /\ (agent'[a].startsPending = 0 /\ ~LoopActive(a)) =>
                    agent'[a].status = "stopped"]_vars

\* C36: every agent the registry holds was started successfully: once its
\* start() is no longer on its way, the agent has a trace and a cycle loop was
\* launched for it.
C36_RegisteredStarted ==
    \A a \in AgentIds :
        (agent[a].registered /\ agent[a].startsPending = 0) => Len(loop[a]) > 0

\* C37: every span of type cycle has no parent span, and the cycle span of a
\* cycle of an agent lies in a trace of that agent.
C37_CycleSpansAreRoots ==
    /\ \A id \in DOMAIN spans : spans[id].type = "cycle" => spans[id].parent = None
    /\ \A a \in AgentIds : \A i \in DOMAIN loop[a] :
          loop[a][i].cycleSpan # None =>
              /\ spans[loop[a][i].cycleSpan].type = "cycle"
              /\ traces[spans[loop[a][i].cycleSpan].traceId].agent = a

\* C38: when the active context is set, its trace is in status running, and
\* its current span, if it has one, is in status running and lies in that trace.
C38_ContextIsLive ==
    ctx.traceId # None =>
        /\ traces[ctx.traceId].status = "running"
        /\ ctx.spanId # None =>
              /\ ctx.spanId \in DOMAIN spans
              /\ spans[ctx.spanId].status = "running"
              /\ spans[ctx.spanId].traceId = ctx.traceId

\* C39: a process whose status is completed, error or cancelled keeps that
\* status in every later step (so a cancelled process stays cancelled whatever
\* its interrupted query delivers afterwards).
C39_TerminalStatusFinal ==
    [][\A p \in ProcIds :
          processes[p].status \in TerminalStatuses =>
              processes'[p].status = processes[p].status]_vars

====
